---- MODULE Spec2Model ----
(***************************************************************************)
(* The data synchronization engine of tenlisboa/fmt: the sync command      *)
(* (internal/commands/sync.go), its worker pool and result channels, the   *)
(* two upstream connectors and the SQLite record and watermark store       *)
(* (internal/datastore).                                                   *)
(*                                                                         *)
(* Time is an integer; a day is DayLen units.  An optional time            *)
(* (a time.Time pointer) is a sequence: <<>> is nil, <<t>> points at t.    *)
(*                                                                         *)
(* Spec is one run of a two-team configuration under every interleaving of *)
(* its tasks; RunsSpec is a sequence of runs of a one-team configuration   *)
(* with the upstream changing between them; StoreSpec calls the store      *)
(* directly; ConnSpec follows a connector fetch call request by request    *)
(* over results of up to Pages full pages; CmdSpec is one invocation of    *)
(* the command, from its flags and environment on; FnSpec applies the     *)
(* functions of the domain model to bounded inputs; LiveSpec is one run    *)
(* of two teams scheduled fairly, for what a run eventually does.          *)
(* GrowSpec is runs during which records are created upstream; OrderSpec   *)
(* and IdentSpec are one run of a configuration with two projects, and of  *)
(* one whose teams lack usernames; StampSpec is one run in which a task's  *)
(* clock read is a step of its own.                                        *)
(***************************************************************************)
EXTENDS Integers, Sequences, FiniteSets, TLC

\* ----------------------------------------------------------------- bounds
MaxRuns == 2
MaxFaults == 1
MaxEdits == 1
DayLen == 2
\* runtime.NumCPU(), the capacity of the package-level pool
PoolSize == 2
MaxCalls == 4
\* the longest list of teams handed to filterTeams on its own
MaxTeams == 2
\* the latest time a record handed to a function on its own carries
MaxTime == 3
\* the full pages of the largest upstream result the connectors page through
Pages == 2

NilTime == <<>>
SomeTime(t) == <<t>>
Min(a, b) == IF a < b THEN a ELSE b
Range(s) == {s[i] : i \in 1..Len(s)}

\* ---------------------------------------------------------- configuration
\* config.yaml as config.LoadConfig returns it
Member(gh, jira) == [GitHubUsername |-> gh, JiraUsername |-> jira]
Core == [Name |-> "Core", Members |-> << Member("alice", "alice") >>]
Web == [Name |-> "Web", Members |-> << Member("bob", ""), Member("", "carol") >>]
\* two teams, two repositories and a project
FullConfig ==
  [Teams |-> << Core, Web >>, Repositories |-> << "A", "B" >>, Projects |-> << "P" >>]
\* one team of three members, one repository and a project
Solo == [Name |-> "Solo", Members |-> << Member("alice", "alice"), Member("bob", ""),
                                        Member("", "carol") >>]
SmallConfig ==
  [Teams |-> << Solo >>, Repositories |-> << "A" >>, Projects |-> << "P" >>]

\* strings.EqualFold on the names this model uses: two names are equal under
\* folding when their lower-case forms are equal
ToLower(s) ==
  CASE s = "CORE" -> "core"
    [] s = "Core" -> "core"
    [] s = "Web"  -> "web"
    [] s = "WEB"  -> "web"
    [] s = "Ops"  -> "ops"
    [] s = "Closed" -> "closed"
    [] s = "Open" -> "open"
    [] s = "DONE" -> "done"
    [] s = "Cor" -> "cor"
    [] s = "CoreWeb" -> "coreweb"
    [] s = "Done" -> "done"
    [] s = "Resolved" -> "resolved"
    [] s = "RESOLVED" -> "resolved"
    [] s = "Complete" -> "complete"
    [] s = "Completed" -> "completed"
    [] s = "Undone" -> "undone"
    [] s = "In Progress" -> "in progress"
    [] OTHER -> s
EqualFold(a, b) == ToLower(a) = ToLower(b)

\* SyncCommand.filterTeams
RECURSIVE FilterFrom(_, _, _)
FilterFrom(teams, filter, i) ==
  IF i > Len(teams) THEN <<>>
  ELSE (IF EqualFold(teams[i].Name, filter) THEN << teams[i] >> ELSE <<>>)
       \o FilterFrom(teams, filter, i + 1)
\* a defective variant: a filter that matches no team selects every team
filterTeams_AllOnNoMatch(teams, filter) ==
  IF filter = "" \/ FilterFrom(teams, filter, 1) = <<>> THEN teams
  ELSE FilterFrom(teams, filter, 1)

\* a defective variant: the names are compared as they are written
filterTeams_CaseSensitive(teams, filter) ==
  IF filter = "" THEN teams ELSE SelectSeq(teams, LAMBDA t : t.Name = filter)

filterTeams(teams, filter) ==
  IF filter = "" THEN teams ELSE FilterFrom(teams, filter, 1)

\* SyncCommand.extractGitHubUsernames / extractJiraUsernames
RECURSIVE GitHubFrom(_, _)
GitHubFrom(members, i) ==
  IF i > Len(members) THEN <<>>
  ELSE (IF members[i].GitHubUsername # "" THEN << members[i].GitHubUsername >> ELSE <<>>)
       \o GitHubFrom(members, i + 1)
\* a defective variant: the username of every member, empty ones included
extractGitHubUsernames_KeepEmpty(members) ==
  [i \in 1..Len(members) |-> members[i].GitHubUsername]
extractGitHubUsernames(members) == GitHubFrom(members, 1)

RECURSIVE JiraFrom(_, _)
JiraFrom(members, i) ==
  IF i > Len(members) THEN <<>>
  ELSE (IF members[i].JiraUsername # "" THEN << members[i].JiraUsername >> ELSE <<>>)
       \o JiraFrom(members, i + 1)
extractJiraUsernames(members) == JiraFrom(members, 1)

\* --------------------------------------------------------------- upstream
\* What the code-hosting service lists for a repository (github.PullRequest)
GhPR(repo, number, login, created, state, merged, title) ==
  [Repo |-> repo, Number |-> number, Login |-> login, CreatedAt |-> created,
   State |-> state, MergedAt |-> merged, Title |-> title, Body |-> "body",
   Additions |-> 3, Deletions |-> 1, Comments |-> 0, Commits |-> 1]
InitGhPRs ==
  { GhPR("A", 1, "alice", 1, "closed", SomeTime(2), "t1"),
    GhPR("A", 2, "bob",   3, "open",   NilTime,     "t1"),
    GhPR("B", 1, "alice", 1, "closed", NilTime,     "t1") }

\* What the issue tracker returns for a search (jira Issue and its Fields)
JiraIssue(project, key, assignee, created, updated, status, resolution, labels, summary) ==
  [Project |-> project, Key |-> key, Assignee |-> assignee, Created |-> created,
   Updated |-> updated, Status |-> status, Resolutiondate |-> resolution,
   Labels |-> labels, Summary |-> summary, Description |-> "desc",
   Priority |-> "High", Reporter |-> "rep", Type |-> "Bug"]
InitJiraIssues ==
  { JiraIssue("P", "P-1", "alice", 1, 1, "Closed", NilTime, << "x", "y" >>, "t1"),
    JiraIssue("P", "P-2", "carol", 2, 2, "Open",   NilTime, <<>>,           "t1") }

\* ----------------------------------------------------------- domain model
\* a defective variant: every closed pull request is taken as merged
MapPRToDomain_MergedOnClosed(ghPR, repository) ==
  [ID |-> 0, GitHubPRID |-> ghPR.Number, Title |-> ghPR.Title,
   Description |-> ghPR.Body, Author |-> ghPR.Login, Repository |-> repository,
   CreatedAt |-> ghPR.CreatedAt, MergedAt |-> ghPR.MergedAt,
   LinesAdded |-> ghPR.Additions, LinesDeleted |-> ghPR.Deletions,
   CommentsCount |-> ghPR.Comments, CommitsCount |-> ghPR.Commits,
   State |-> IF ghPR.State = "closed" THEN "merged" ELSE ghPR.State]

\* github.MapPRToDomain
MapPRToDomain(ghPR, repository) ==
  LET state == IF ghPR.State = "closed" /\ ghPR.MergedAt # NilTime
               THEN "merged" ELSE ghPR.State
  IN [ID |-> 0, GitHubPRID |-> ghPR.Number, Title |-> ghPR.Title,
      Description |-> ghPR.Body, Author |-> ghPR.Login, Repository |-> repository,
      CreatedAt |-> ghPR.CreatedAt, MergedAt |-> ghPR.MergedAt,
      LinesAdded |-> ghPR.Additions, LinesDeleted |-> ghPR.Deletions,
      CommentsCount |-> ghPR.Comments, CommitsCount |-> ghPR.Commits,
      State |-> state]

\* jira.isResolvedStatus
ResolvedStatuses == << "done", "closed", "resolved", "complete", "completed" >>
\* a defective variant: the status is compared without strings.ToLower
isResolvedStatus_CaseSensitive(status) ==
  \E i \in 1..Len(ResolvedStatuses) : status = ResolvedStatuses[i]
isResolvedStatus(status) ==
  \E i \in 1..Len(ResolvedStatuses) : ToLower(status) = ResolvedStatuses[i]

\* Issue.IsResolved
IsResolved(issue) == issue.Status \in {"Done", "Closed", "Resolved"}

\* a defective variant: the creation time minus the merge time
CycleTime_Reversed(pr) ==
  IF pr.MergedAt = NilTime THEN NilTime
  ELSE SomeTime(pr.CreatedAt - pr.MergedAt[1])

\* PullRequest.CycleTime: nil, or MergedAt.Sub(CreatedAt)
CycleTime(pr) ==
  IF pr.MergedAt = NilTime THEN NilTime
  ELSE SomeTime(pr.MergedAt[1] - pr.CreatedAt)

\* jira.MapIssueToDomain
MapIssueToDomain(jiraIssue, project) ==
  LET resolved ==
        IF jiraIssue.Resolutiondate # NilTime THEN jiraIssue.Resolutiondate
        ELSE IF jiraIssue.Status # "" /\ isResolvedStatus(jiraIssue.Status)
             THEN SomeTime(jiraIssue.Updated)
             ELSE NilTime
  IN [ID |-> 0, JiraIssueID |-> jiraIssue.Key, Title |-> jiraIssue.Summary,
      Description |-> jiraIssue.Description, Status |-> jiraIssue.Status,
      Priority |-> jiraIssue.Priority, Assignee |-> jiraIssue.Assignee,
      Reporter |-> jiraIssue.Reporter, Project |-> project,
      IssueType |-> jiraIssue.Type, Labels |-> jiraIssue.Labels,
      StoryPoints |-> NilTime, CreatedAt |-> jiraIssue.Created,
      UpdatedAt |-> jiraIssue.Updated, ResolvedAt |-> resolved]

\* ------------------------------------------------------------- the store
\* The four tables of fmt.db and the AUTOINCREMENT counters (sqlite_sequence)
EmptyDB ==
  [pull_requests |-> {}, pr_seq |-> 0, issues |-> {}, issue_seq |-> 0,
   sync_runs |-> {}, sync_seq |-> 0, jira_sync_runs |-> {}, jira_sync_seq |-> 0]

\* strings.Join(issue.Labels, ",")
RECURSIVE JoinFrom(_, _)
JoinFrom(labels, i) ==
  IF i > Len(labels) THEN ""
  ELSE IF i = Len(labels) THEN labels[i]
  ELSE labels[i] \o "," \o JoinFrom(labels, i + 1)
JoinLabels(labels) == IF Len(labels) > 0 THEN JoinFrom(labels, 1) ELSE ""

\* the column values PRRepository.Save binds, in a row with local id `id`
PRRow(id, pr) ==
  [id |-> id, github_pr_id |-> pr.GitHubPRID, title |-> pr.Title,
   description |-> pr.Description, author |-> pr.Author,
   repository |-> pr.Repository, created_at |-> pr.CreatedAt,
   merged_at |-> pr.MergedAt, lines_added |-> pr.LinesAdded,
   lines_deleted |-> pr.LinesDeleted, comments_count |-> pr.CommentsCount,
   commits_count |-> pr.CommitsCount, state |-> pr.State]

\* the column values IssueRepository.Save binds
IssueRow(id, issue) ==
  [id |-> id, jira_issue_id |-> issue.JiraIssueID, title |-> issue.Title,
   description |-> issue.Description, status |-> issue.Status,
   priority |-> issue.Priority, assignee |-> issue.Assignee,
   reporter |-> issue.Reporter, project |-> issue.Project,
   issue_type |-> issue.IssueType, labels |-> JoinLabels(issue.Labels),
   story_points |-> issue.StoryPoints, created_at |-> issue.CreatedAt,
   updated_at |-> issue.UpdatedAt, resolved_at |-> issue.ResolvedAt]

\* a defective variant, UNIQUE(repository) alone: a save evicts every row of
\* the repository
PRConflicts_ByRepository(rows, pr) ==
  {r \in rows : r.repository = pr.Repository}

\* UNIQUE(github_pr_id, repository): the rows an INSERT OR REPLACE of pr deletes
PRConflicts(rows, pr) ==
  {r \in rows : r.github_pr_id = pr.GitHubPRID /\ r.repository = pr.Repository}

\* a defective variant, a plain INSERT: the row of the same key stays
SavePR_InsertOnly(d, pr) ==
  [d EXCEPT !.pull_requests = d.pull_requests \cup {PRRow(d.pr_seq + 1, pr)},
            !.pr_seq = d.pr_seq + 1]

\* a defective variant, INSERT OR IGNORE: the stored row of the same key wins
SavePR_InsertOrIgnore(d, pr) ==
  IF PRConflicts(d.pull_requests, pr) # {} THEN d
  ELSE [d EXCEPT !.pull_requests = d.pull_requests \cup {PRRow(d.pr_seq + 1, pr)},
                 !.pr_seq = d.pr_seq + 1]

\* PRRepository.Save, when Exec succeeds
SavePR(d, pr) ==
  [d EXCEPT !.pull_requests =
               (d.pull_requests \ PRConflicts(d.pull_requests, pr))
               \cup {PRRow(d.pr_seq + 1, pr)},
            !.pr_seq = d.pr_seq + 1]

\* UNIQUE(jira_issue_id, project)
IssueConflicts(rows, issue) ==
  {r \in rows : r.jira_issue_id = issue.JiraIssueID /\ r.project = issue.Project}

\* IssueRepository.Save, when Exec succeeds
SaveIssue(d, issue) ==
  [d EXCEPT !.issues =
               (d.issues \ IssueConflicts(d.issues, issue))
               \cup {IssueRow(d.issue_seq + 1, issue)},
            !.issue_seq = d.issue_seq + 1]

\* a defective variant, the write not restricted to its repository: every
\* stored watermark moves to t
UpdateLastSyncPR_AllRows(d, repository, t) ==
  [d EXCEPT !.sync_runs =
               {[r EXCEPT !.last_sync_at = t] : r \in {q \in d.sync_runs : q.repository # repository}}
               \cup {[id |-> d.sync_seq + 1, repository |-> repository,
                      last_sync_at |-> t]},
            !.sync_seq = d.sync_seq + 1]

\* PRRepository.UpdateLastSync, when Exec succeeds at time t
UpdateLastSyncPR(d, repository, t) ==
  [d EXCEPT !.sync_runs =
               {r \in d.sync_runs : r.repository # repository}
               \cup {[id |-> d.sync_seq + 1, repository |-> repository,
                      last_sync_at |-> t]},
            !.sync_seq = d.sync_seq + 1]

\* IssueRepository.UpdateLastSync, when Exec succeeds at time t
UpdateLastSyncIssue(d, project, t) ==
  [d EXCEPT !.jira_sync_runs =
               {r \in d.jira_sync_runs : r.project # project}
               \cup {[id |-> d.jira_sync_seq + 1, project |-> project,
                      last_sync_at |-> t]},
            !.jira_sync_seq = d.jira_sync_seq + 1]

\* PRRepository.GetLastSync, when the query succeeds: nil on sql.ErrNoRows
GetLastSyncPR(d, repository) ==
  LET rows == {r \in d.sync_runs : r.repository = repository}
  IN IF rows = {} THEN NilTime
     ELSE SomeTime((CHOOSE r \in rows : \A q \in rows : r.id <= q.id).last_sync_at)

\* IssueRepository.GetLastSync, when the query succeeds
GetLastSyncIssue(d, project) ==
  LET rows == {r \in d.jira_sync_runs : r.project = project}
  IN IF rows = {} THEN NilTime
     ELSE SomeTime((CHOOSE r \in rows : \A q \in rows : r.id <= q.id).last_sync_at)

\* ------------------------------------------------------------- connectors
\* ListOptions.PerPage of FetchPRs and SearchOptions.MaxResults of FetchIssues
PerPage == 100
MaxResults == 100

\* The listing the code-hosting API serves for a repository: state "all",
\* sorted by creation time, newest first (ties by number, newest first)
RECURSIVE SortPRs(_)
SortPRs(S) ==
  IF S = {} THEN <<>>
  ELSE LET first == CHOOSE x \in S : \A y \in S :
                      \/ x.CreatedAt > y.CreatedAt
                      \/ (x.CreatedAt = y.CreatedAt /\ x.Number >= y.Number)
       IN << first >> \o SortPRs(S \ {first})
ListPRs(upstream, repository) ==
  SortPRs({p \in upstream : p.Repo = repository})

\* one page of a listing, and resp.NextPage (0 after the last page)
PageOf(listing, page, perPage) ==
  SubSeq(listing, (page - 1) * perPage + 1, Min(page * perPage, Len(listing)))
NextPage(listing, page, perPage) ==
  IF page * perPage < Len(listing) THEN page + 1 ELSE 0

\* a defective variant: a pull request created at `since` itself is dropped
RECURSIVE KeepPRs_SinceExclusive(_, _, _)
KeepPRs_SinceExclusive(prs, filter, i) ==
  IF i > Len(prs) THEN <<>>
  ELSE (IF filter.Author # "" /\ prs[i].Login # filter.Author THEN <<>>
        ELSE IF filter.Since # NilTime /\ prs[i].CreatedAt <= filter.Since[1] THEN <<>>
        ELSE << MapPRToDomain(prs[i], filter.Repository) >>)
       \o KeepPRs_SinceExclusive(prs, filter, i + 1)

\* the body of the page loop of FetchPRs: the client-side author and since
\* filters, then MapPRToDomain
RECURSIVE KeepPRs(_, _, _)
KeepPRs(prs, filter, i) ==
  IF i > Len(prs) THEN <<>>
  ELSE (IF filter.Author # "" /\ prs[i].Login # filter.Author THEN <<>>
        ELSE IF filter.Since # NilTime /\ prs[i].CreatedAt < filter.Since[1] THEN <<>>
        ELSE << MapPRToDomain(prs[i], filter.Repository) >>)
       \o KeepPRs(prs, filter, i + 1)

\* Client.FetchPRs when every page request succeeds
RECURSIVE FetchPRsFrom(_, _, _, _)
FetchPRsFrom(listing, filter, page, perPage) ==
  KeepPRs(PageOf(listing, page, perPage), filter, 1)
  \o (IF NextPage(listing, page, perPage) = 0 THEN <<>>
      ELSE FetchPRsFrom(listing, filter, NextPage(listing, page, perPage), perPage))
FetchPRs(upstream, filter) ==
  FetchPRsFrom(ListPRs(upstream, filter.Repository), filter, 1, PerPage)

\* Client.FetchPRsForTeamMembers when every FetchPRs call succeeds
RECURSIVE FetchPRsForFrom(_, _, _, _, _)
FetchPRsForFrom(upstream, repository, usernames, since, i) ==
  IF i > Len(usernames) THEN <<>>
  ELSE FetchPRs(upstream, [Repository |-> repository, Author |-> usernames[i],
                           Since |-> since, State |-> "all"])
       \o FetchPRsForFrom(upstream, repository, usernames, since, i + 1)
FetchPRsForTeamMembers(upstream, repository, usernames, since) ==
  FetchPRsForFrom(upstream, repository, usernames, since, 1)

\* since.Format("2006-01-02") read back by the search as the start of that day
DayStart(t) == t - (t % DayLen)

\* What the search serves for the JQL buildJQL composes: project, assignee and
\* created >= "<date of since>", ORDER BY created DESC
JQLMatches(issue, filter) ==
  /\ (filter.Project # "" => issue.Project = filter.Project)
  /\ (filter.Assignee # "" => issue.Assignee = filter.Assignee)
  /\ (filter.Since # NilTime => issue.Created >= DayStart(filter.Since[1]))
RECURSIVE SortIssues(_)
SortIssues(S) ==
  IF S = {} THEN <<>>
  ELSE LET first == CHOOSE x \in S : \A y \in S :
                      \/ x.Created > y.Created
                      \/ x.Created = y.Created
       IN << first >> \o SortIssues(S \ {first})
SearchIssues(upstream, filter) ==
  SortIssues({i \in upstream : JQLMatches(i, filter)})

RECURSIVE MapIssues(_, _, _)
MapIssues(found, project, i) ==
  IF i > Len(found) THEN <<>>
  ELSE << MapIssueToDomain(found[i], project) >> \o MapIssues(found, project, i + 1)

\* Client.FetchIssues when every search request succeeds: pages of MaxResults
\* from StartAt, until a page holds fewer than MaxResults
RECURSIVE FetchIssuesFrom(_, _, _, _)
FetchIssuesFrom(found, project, startAt, maxResults) ==
  LET page == SubSeq(found, startAt + 1, Min(startAt + maxResults, Len(found)))
  IN MapIssues(page, project, 1)
     \o (IF Len(page) < maxResults THEN <<>>
         ELSE FetchIssuesFrom(found, project, startAt + maxResults, maxResults))
FetchIssues(upstream, filter) ==
  FetchIssuesFrom(SearchIssues(upstream, filter), filter.Project, 0, MaxResults)

\* Client.FetchIssuesForTeamMembers when every FetchIssues call succeeds
RECURSIVE FetchIssuesForFrom(_, _, _, _, _)
FetchIssuesForFrom(upstream, project, usernames, since, i) ==
  IF i > Len(usernames) THEN <<>>
  ELSE FetchIssues(upstream, [Project |-> project, Assignee |-> usernames[i],
                              Since |-> since])
       \o FetchIssuesForFrom(upstream, project, usernames, since, i + 1)
FetchIssuesForTeamMembers(upstream, project, usernames, since) ==
  FetchIssuesForFrom(upstream, project, usernames, since, 1)

\* ------------------------------------------------------------------ state
VARIABLES
  cfg,         \* the configuration file config.LoadConfig reads
  db,          \* fmt.db: the four tables
  ghPRs,       \* the pull requests the code-hosting service holds
  jiraIssues,  \* the issues the issue tracker holds
  now,         \* the clock time.Now() reads
  o,           \* the process running SyncCommand.runSync: its position and locals
  tasks,       \* the goroutines wp.Work started, by <<team index, repository index>>
  bus,         \* the result channel of each team, a buffer of len(Repositories)
  wp,          \* the number of slots of the worker pool that are held
  totalPRs,    \* runSync's totalPRs, shared with the tasks
  g,           \* history: what the current run has done so far
  last,        \* history: the last direct call to the store
  call,        \* the connector call in progress, request by request
  cmd,         \* the invocation of `fmt sync`: its arguments, environment, outcome
  fn           \* the last call of a function of the domain model: argument, result

vars == << cfg, db, ghPRs, jiraIssues, now, o, tasks, bus, wp, totalPRs, g, last,
          call, cmd, fn >>

Teams == cfg.Teams
Repositories == cfg.Repositories
Projects == cfg.Projects

RepoScope(r) == << "github", r >>
ProjScope(p) == << "jira", p >>
Scopes == {RepoScope(Repositories[i]) : i \in 1..Len(Repositories)}
          \cup {ProjScope(Projects[i]) : i \in 1..Len(Projects)}

\* the watermark the store holds for a scope
Watermark(d, scope) ==
  IF scope[1] = "github" THEN GetLastSyncPR(d, scope[2]) ELSE GetLastSyncIssue(d, scope[2])

IdleO ==
  [pc |-> "idle", teamFilter |-> "", since |-> NilTime, teamsToSync |-> <<>>,
   teamIdx |-> 0, repoIdx |-> 0, projIdx |-> 0, pTeamIdx |-> 0,
   lastSync |-> NilTime, readErr |-> FALSE, stored |-> NilTime,
   syncSince |-> NilTime, issues |-> <<>>, k |-> 0,
   totalIssues |-> 0, exitCode |-> 0, dbOpen |-> FALSE]

NoProj == [access |-> "none", fetched |-> {}, failed |-> FALSE, fetchErr |-> FALSE,
           saved |-> 0, wm |-> "none"]

\* history: how the run before ended (clean: it returned 0 with no failed
\* call, and the upstream has not changed since)
NoPrev == [clean |-> FALSE, since |-> NilTime]

FreshG(runs, edits, d, prev) ==
  [runs |-> runs, faults |-> 0, edits |-> edits, start |-> d, prev |-> prev,
   wmWrites |-> [s \in Scopes |-> 0], late |-> {}, fetches |-> {},
   proj |-> [p \in Range(Projects) |-> NoProj]]

NoCall == [op |-> "none", ok |-> FALSE, n |-> 0, arg |-> <<>>,
           replaced |-> FALSE, changed |-> FALSE]

\* no function of the domain model called yet
NoFn == [op |-> "none", arg |-> <<>>, res |-> <<>>]

\* no invocation yet: what the shell passes and what Run has made of it
NoArgs == [dryRun |-> FALSE, since |-> "", team |-> ""]
NoEnv == [configExists |-> TRUE, loadErr |-> FALSE, GITHUB_TOKEN |-> "",
          JIRA_API_TOKEN |-> "", JIRA_USERNAME |-> "", NumCPU |-> PoolSize]
NoCmd == [pc |-> "none", args |-> NoArgs, env |-> NoEnv, since |-> NilTime,
          code |-> 0, out |-> ""]

\* no connector call in progress. requests, ends and served are history: the
\* requests made, where each username's records end in all, and what the API
\* had for each username
NoConn == [pc |-> "idle", kind |-> "", scope |-> "", usernames |-> <<>>,
           since |-> NilTime, u |-> 0, at |-> 0, listing |-> <<>>, acc |-> <<>>,
           all |-> <<>>, result |-> <<>>, err |-> FALSE, requests |-> <<>>,
           ends |-> <<>>, served |-> <<>>]

\* the store as an earlier run at time 2 left it: repository A and project P
\* synced for alice, repository B never reached
PriorDB ==
  UpdateLastSyncIssue(
    SaveIssue(
      UpdateLastSyncPR(
        SavePR(EmptyDB, MapPRToDomain(GhPR("A", 1, "alice", 1, "closed", SomeTime(2), "t0"), "A")),
        "A", 2),
      MapIssueToDomain(JiraIssue("P", "P-1", "alice", 1, 1, "Closed", NilTime, << "x" >>, "t0"), "P")),
    "P", 2)

InitWith(config, stores) ==
  /\ cfg = config
  /\ db \in stores
  /\ ghPRs = InitGhPRs
  /\ jiraIssues = InitJiraIssues
  /\ now = 3
  /\ o = IdleO
  /\ tasks = <<>>
  /\ bus = [i \in 1..Len(Teams) |-> <<>>]
  /\ wp = 0
  /\ totalPRs = 0
  /\ g = FreshG(0, 0, db, NoPrev)
  /\ last = NoCall
  /\ call = NoConn
  /\ cmd = NoCmd
  /\ fn = NoFn

\* one run of the full configuration, on a fresh store or on an earlier run's
Init == InitWith(FullConfig, {EmptyDB, PriorDB})

\* a defective variant: the stored watermark wins over -since
ResolveSince_LastSyncFirst(since, lastSync) ==
  IF lastSync # NilTime THEN lastSync ELSE since

\* lines 161-164 and 204-207 of sync.go: the lower bound handed to the connector
ResolveSince(since, lastSync) ==
  IF since = NilTime /\ lastSync # NilTime THEN lastSync ELSE since

\* the first team at or after index i that has a GitHub username, or
\* Len(teams) + 1: the teams before it are skipped by the continue of line 144
RECURSIVE NextGitHubTeam(_, _)
NextGitHubTeam(teams, i) ==
  IF i > Len(teams) THEN i
  ELSE IF Len(extractGitHubUsernames(teams[i].Members)) = 0
       THEN NextGitHubTeam(teams, i + 1)
       ELSE i

\* the same for the team loop of a project (the continue of line 215)
RECURSIVE NextJiraTeam(_, _)
NextJiraTeam(teams, i) ==
  IF i > Len(teams) THEN i
  ELSE IF Len(extractJiraUsernames(teams[i].Members)) = 0
       THEN NextJiraTeam(teams, i + 1)
       ELSE i

\* runSync's position when the team loop moves to index i: dispatching the
\* first repository of the next team with usernames, or the project loop
AtTeam(rec, i) ==
  LET n == NextGitHubTeam(rec.teamsToSync, i)
  IN IF n > Len(rec.teamsToSync) \/ Len(Repositories) = 0
     THEN [rec EXCEPT !.pc = "project", !.teamIdx = Len(rec.teamsToSync) + 1,
                      !.repoIdx = 0, !.projIdx = 1]
     ELSE [rec EXCEPT !.pc = "dispatch", !.teamIdx = n, !.repoIdx = 1]


\* ------------------------------------------------------------ the process
\* the flags a run is started with
Filters == {"", "CORE", "Ops"}
Sinces == {NilTime, SomeTime(0)}

\* a failure of a connector or store call: at most MaxFaults in one run
\* a team per repository task, one repository, no project: the configuration
\* the run is followed to its end on
LiveConfig ==
  [Teams |-> << Core, Web >>, Repositories |-> << "A" >>, Projects |-> <<>>]
\* how many calls of a behaviour fail
FaultLimit == IF cfg = LiveConfig THEN MaxFaults + 1 ELSE MaxFaults
CanFail == g.faults < FaultLimit
Fault(h) == [h EXCEPT !.faults = @ + 1]

\* how many runs a behaviour holds: one of the full configuration
RunLimit == IF cfg = FullConfig THEN 1 ELSE MaxRuns

\* SyncCommand.Run with valid flags, then runSync up to the team loop
\* (lines 113-136): the database opens, the teams are filtered
StartRun(filter, since) ==
  /\ o.pc = "idle"
  /\ g.runs < RunLimit
  /\ LET teams == filterTeams(Teams, filter)
         base == [IdleO EXCEPT !.teamFilter = filter, !.since = since,
                               !.teamsToSync = teams]
     IN IF Len(teams) = 0
        THEN o' = [IdleO EXCEPT !.exitCode = 1, !.teamFilter = filter]
        ELSE o' = AtTeam([base EXCEPT !.dbOpen = TRUE], 1)
  /\ tasks' = <<>>
  /\ bus' = [i \in 1..Len(Teams) |-> <<>>]
  /\ wp' = 0
  /\ totalPRs' = 0
  /\ g' = FreshG(g.runs + 1, g.edits, db,
                 IF Len(filterTeams(Teams, filter)) = 0 THEN NoPrev ELSE g.prev)
  /\ UNCHANGED << cfg, db, ghPRs, jiraIssues, now, last, call, cmd, fn >>

NewTask(team, repo) ==
  [pc |-> "validate", repo |-> repo,
   usernames |-> extractGitHubUsernames(team.Members),
   pending |-> "", access |-> "none", lastSync |-> NilTime, readErr |-> FALSE,
   stored |-> NilTime, syncSince |-> NilTime, fetched |-> FALSE, fetchErr |-> FALSE,
   prs |-> <<>>, k |-> 0, tmp |-> 0, saved |-> 0, saveErrs |-> 0, at |-> 0,
   wm |-> "none"]

\* a defective variant: Work starts the task without waiting for a slot
Work_NoWait ==
  /\ o.pc = "dispatch"
  /\ wp' = wp + 1
  /\ tasks' = tasks @@ (<< o.teamIdx, o.repoIdx >> :>
                 NewTask(o.teamsToSync[o.teamIdx], Repositories[o.repoIdx]))
  /\ o' = [o EXCEPT !.pc = "recv"]
  /\ UNCHANGED << cfg, db, ghPRs, jiraIssues, now, bus, totalPRs, g, last, call, cmd, fn >>

\* wp.Work (lines 99-107): takes a slot when one is free and starts the task
Work ==
  /\ o.pc = "dispatch"
  /\ wp < cmd.env.NumCPU
  /\ wp' = wp + 1
  /\ tasks' = tasks @@ (<< o.teamIdx, o.repoIdx >> :>
                 NewTask(o.teamsToSync[o.teamIdx], Repositories[o.repoIdx]))
  /\ o' = [o EXCEPT !.pc = "recv"]
  /\ UNCHANGED << cfg, db, ghPRs, jiraIssues, now, bus, totalPRs, g, last, call, cmd, fn >>

\* a defective variant: after a message that is not a result line the same
\* repository is dispatched once more
Receive_Retry ==
  /\ o.pc = "recv"
  /\ Len(bus[o.teamIdx]) > 0
  /\ bus' = [bus EXCEPT ![o.teamIdx] = Tail(@)]
  /\ o' = IF Head(bus[o.teamIdx]) # "result"
          THEN [o EXCEPT !.pc = "dispatch"]
          ELSE IF o.repoIdx < Len(Repositories)
          THEN [o EXCEPT !.pc = "dispatch", !.repoIdx = @ + 1]
          ELSE AtTeam(o, o.teamIdx + 1)
  /\ UNCHANGED << cfg, db, ghPRs, jiraIssues, now, tasks, wp, totalPRs, g, last, call, cmd, fn >>

\* msg := <-bus (line 186): one message per submitted task, then the next
\* repository, or the next team
Receive ==
  /\ o.pc = "recv"
  /\ Len(bus[o.teamIdx]) > 0
  /\ bus' = [bus EXCEPT ![o.teamIdx] = Tail(@)]
  /\ o' = IF o.repoIdx < Len(Repositories)
          THEN [o EXCEPT !.pc = "dispatch", !.repoIdx = @ + 1]
          ELSE AtTeam(o, o.teamIdx + 1)
  /\ UNCHANGED << cfg, db, ghPRs, jiraIssues, now, tasks, wp, totalPRs, g, last, call, cmd, fn >>

TaskIds == (1..Len(Teams)) \X (1..Len(Repositories))
\* a goroutine that has not finished; it runs until runSync has returned and
\* closed the channels and the database, where it can only panic or be killed
Live(id) == id \in DOMAIN tasks /\ tasks[id].pc # "done"
Ready(id) ==
  Live(id) /\ o.pc \notin {"idle", "returned"} /\ tasks[id].pending = ""

\* a repository that has refused one task refuses the next one as well: such
\* a failure is the same upstream condition, not a further fault
Refused(id) ==
  \E other \in DOMAIN tasks :
    tasks[other].repo = tasks[id].repo /\ tasks[other].access = "fail"

\* a defective variant, the return of line 154 missing: the task goes on
\* after a failed access check
TaskValidate_NoReturn(id) ==
  /\ Ready(id) /\ tasks[id].pc = "validate"
  /\ \/ /\ tasks' = [tasks EXCEPT ![id].pc = "getLastSync", ![id].access = "ok"]
        /\ g' = g
     \/ /\ CanFail \/ Refused(id)
        /\ tasks' = [tasks EXCEPT ![id].pc = "getLastSync", ![id].access = "fail",
                                  ![id].pending = "access"]
        /\ g' = IF Refused(id) THEN g ELSE Fault(g)
  /\ UNCHANGED << cfg, db, ghPRs, jiraIssues, now, o, bus, wp, totalPRs, last, call, cmd, fn >>

\* line 151: ghClient.ValidateAccess
TaskValidate(id) ==
  /\ Ready(id) /\ tasks[id].pc = "validate"
  /\ \/ /\ tasks' = [tasks EXCEPT ![id].pc = "getLastSync", ![id].access = "ok"]
        /\ g' = g
     \/ /\ CanFail \/ Refused(id)
        /\ tasks' = [tasks EXCEPT ![id].pc = "return", ![id].access = "fail",
                                  ![id].pending = "access"]
        /\ g' = IF Refused(id) THEN g ELSE Fault(g)
  /\ UNCHANGED << cfg, db, ghPRs, jiraIssues, now, o, bus, wp, totalPRs, last, call, cmd, fn >>

\* lines 156-159: prRepo.GetLastSync; on an error a warning and lastSync nil
TaskGetLastSync(id) ==
  /\ Ready(id) /\ tasks[id].pc = "getLastSync"
  /\ \/ /\ tasks' = [tasks EXCEPT ![id].pc = "fetch",
                        ![id].lastSync = GetLastSyncPR(db, tasks[id].repo),
                        ![id].stored = GetLastSyncPR(db, tasks[id].repo)]
        /\ g' = g
     \/ /\ CanFail
        /\ g' = Fault(g)
        /\ tasks' = [tasks EXCEPT ![id].pc = "fetch", ![id].readErr = TRUE,
                        ![id].stored = GetLastSyncPR(db, tasks[id].repo),
                        ![id].pending = "readwarn"]
  /\ UNCHANGED << cfg, db, ghPRs, jiraIssues, now, o, bus, wp, totalPRs, last, call, cmd, fn >>

\* history: one connector fetch call, with the watermark the store held when
\* GetLastSync ran for it
FetchEntry(scope, given, readErr, stored, since) ==
  [scope |-> scope, given |-> given, readErr |-> readErr,
   stored |-> stored, since |-> since]

\* where the save loop of a batch stands at index k
AfterSave(batch, k) == IF k > Len(batch) THEN "updateLastSync" ELSE "save"

\* lines 161-172: the lower bound, FetchPRsForTeamMembers, the result line
TaskFetch(id) ==
  /\ Ready(id) /\ tasks[id].pc = "fetch"
  /\ LET t == tasks[id]
         scope == RepoScope(t.repo)
         syncSince == ResolveSince(o.since, t.lastSync)
         h == [g EXCEPT !.late = IF g.wmWrites[scope] > 0 THEN @ \cup {scope} ELSE @,
                        !.fetches = @ \cup {FetchEntry(scope, o.since, t.readErr,
                                                       t.stored, syncSince)}]
         prs == FetchPRsForTeamMembers(ghPRs, t.repo, t.usernames, syncSince)
     IN \/ /\ tasks' = [tasks EXCEPT ![id] =
                          [t EXCEPT !.syncSince = syncSince, !.fetched = TRUE,
                                    !.prs = prs, !.k = 1, !.pending = "result",
                                    !.pc = AfterSave(prs, 1)]]
           /\ g' = h
        \/ /\ CanFail
           /\ tasks' = [tasks EXCEPT ![id] =
                          [t EXCEPT !.syncSince = syncSince, !.fetched = TRUE,
                                    !.fetchErr = TRUE, !.pending = "fetcherr",
                                    !.pc = "return"]]
           /\ g' = Fault(h)
  /\ UNCHANGED << cfg, db, ghPRs, jiraIssues, now, o, bus, wp, totalPRs, last, call, cmd, fn >>

\* lines 174-177: prRepo.Save of the next pull request; on success the task
\* loads totalPRs for the increment of line 178
TaskSave(id) ==
  /\ Ready(id) /\ tasks[id].pc = "save"
  /\ LET t == tasks[id]
         scope == RepoScope(t.repo)
         h == [g EXCEPT !.late = IF g.wmWrites[scope] > 0 THEN @ \cup {scope} ELSE @]
     IN \/ /\ db' = SavePR(db, t.prs[t.k])
           /\ tasks' = [tasks EXCEPT ![id].pc = "incr", ![id].tmp = totalPRs,
                                     ![id].saved = @ + 1]
           /\ g' = h
        \/ /\ CanFail
           /\ g' = Fault(h)
           /\ db' = db
           /\ tasks' = [tasks EXCEPT ![id].pc = AfterSave(t.prs, t.k + 1),
                                     ![id].k = @ + 1, ![id].saveErrs = @ + 1,
                                     ![id].pending = "savewarn"]
  /\ UNCHANGED << cfg, ghPRs, jiraIssues, now, o, bus, wp, totalPRs, last, call, cmd, fn >>

\* line 178: totalPRs++ stores the loaded value plus one
TaskIncr(id) ==
  /\ Ready(id) /\ tasks[id].pc = "incr"
  /\ totalPRs' = tasks[id].tmp + 1
  /\ tasks' = [tasks EXCEPT ![id].pc = AfterSave(tasks[id].prs, tasks[id].k + 1),
                            ![id].k = @ + 1]
  /\ UNCHANGED << cfg, db, ghPRs, jiraIssues, now, o, bus, wp, g, last, call, cmd, fn >>

\* line 93 of pr_repository.go, called from line 182: time.Now(), the
\* argument of Exec, is evaluated before the statement runs. Where this step
\* is not taken, TaskUpdateLastSync reads the clock and writes in one step
TaskNow(id) ==
  /\ Ready(id) /\ tasks[id].pc = "updateLastSync" /\ tasks[id].at = 0
  /\ tasks' = [tasks EXCEPT ![id].at = now]
  /\ now' = now + 1
  /\ UNCHANGED << cfg, db, ghPRs, jiraIssues, o, bus, wp, totalPRs, g, last, call, cmd, fn >>

\* lines 182-184: prRepo.UpdateLastSync stores the time.Now() it read
TaskUpdateLastSync(id) ==
  /\ Ready(id) /\ tasks[id].pc = "updateLastSync"
  /\ LET scope == RepoScope(tasks[id].repo)
         t == IF tasks[id].at = 0 THEN now ELSE tasks[id].at
     IN \/ /\ now' = now + 1
           /\ db' = UpdateLastSyncPR(db, tasks[id].repo, t)
           /\ tasks' = [tasks EXCEPT ![id].pc = "return", ![id].wm = "ok",
                                     ![id].at = 0]
           /\ g' = [g EXCEPT !.wmWrites[scope] = @ + 1]
        \/ /\ CanFail
           /\ g' = Fault(g)
           /\ UNCHANGED << db, now >>
           /\ tasks' = [tasks EXCEPT ![id].pc = "return", ![id].wm = "fail",
                                     ![id].at = 0, ![id].pending = "wmwarn"]
  /\ UNCHANGED << cfg, ghPRs, jiraIssues, o, bus, wp, totalPRs, last, call, cmd, fn >>

\* bus <- msg: blocks while the buffer of len(Repositories) is full
TaskSend(id) ==
  /\ Live(id) /\ tasks[id].pending # ""
  /\ o.pc \notin {"idle", "returned"}
  /\ Len(bus[id[1]]) < Len(Repositories)
  /\ bus' = [bus EXCEPT ![id[1]] = Append(@, tasks[id].pending)]
  /\ tasks' = [tasks EXCEPT ![id].pending = ""]
  /\ UNCHANGED << cfg, db, ghPRs, jiraIssues, now, o, wp, totalPRs, g, last, call, cmd, fn >>

\* the task function returns and the deferred <-w frees the slot (line 103)
TaskFinish(id) ==
  /\ Ready(id) /\ tasks[id].pc = "return"
  /\ tasks' = [tasks EXCEPT ![id].pc = "done"]
  /\ wp' = wp - 1
  /\ UNCHANGED << cfg, db, ghPRs, jiraIssues, now, o, bus, totalPRs, g, last, call, cmd, fn >>

\* the project loop of runSync (lines 191-238), run by the process itself
CurProject == Projects[o.projIdx]

\* where the team loop of a project stands at index i: the next fetch, or the
\* watermark write after the last team
AtProjectTeam(rec, i) ==
  LET n == NextJiraTeam(rec.teamsToSync, i)
  IN IF n > Len(rec.teamsToSync)
     THEN [rec EXCEPT !.pc = "projUpdate", !.pTeamIdx = n, !.issues = <<>>, !.k = 0]
     ELSE [rec EXCEPT !.pc = "projFetch", !.pTeamIdx = n, !.issues = <<>>, !.k = 0]

\* lines 194-197: jiraClient.ValidateAccess; on failure the project is skipped
ProjValidate ==
  /\ o.pc = "project" /\ o.projIdx <= Len(Projects)
  /\ \/ /\ o' = [o EXCEPT !.pc = "projGetLastSync"]
        /\ g' = [g EXCEPT !.proj[CurProject].access = "ok"]
     \/ /\ CanFail
        /\ o' = [o EXCEPT !.projIdx = @ + 1]
        /\ g' = Fault([g EXCEPT !.proj[CurProject].access = "fail"])
  /\ UNCHANGED << cfg, db, ghPRs, jiraIssues, now, tasks, bus, wp, totalPRs, last, call, cmd, fn >>

\* lines 199-207: issueRepo.GetLastSync and the lower bound of the project
ProjGetLastSync ==
  /\ o.pc = "projGetLastSync"
  /\ LET stored == GetLastSyncIssue(db, CurProject)
     IN \/ /\ o' = AtProjectTeam([o EXCEPT !.lastSync = stored, !.readErr = FALSE,
                                     !.stored = stored,
                                     !.syncSince = ResolveSince(o.since, stored)], 1)
           /\ g' = g
        \/ /\ CanFail
           /\ o' = AtProjectTeam([o EXCEPT !.lastSync = NilTime, !.readErr = TRUE,
                                     !.stored = stored,
                                     !.syncSince = ResolveSince(o.since, NilTime)], 1)
           /\ g' = Fault(g)
  /\ UNCHANGED << cfg, db, ghPRs, jiraIssues, now, tasks, bus, wp, totalPRs, last, call, cmd, fn >>

\* lines 218-224: FetchIssuesForTeamMembers for the team at pTeamIdx
ProjFetch ==
  /\ o.pc = "projFetch"
  /\ LET scope == ProjScope(CurProject)
         usernames == extractJiraUsernames(o.teamsToSync[o.pTeamIdx].Members)
         issues == FetchIssuesForTeamMembers(jiraIssues, CurProject, usernames,
                                             o.syncSince)
         h == [g EXCEPT !.late = IF g.wmWrites[scope] > 0 THEN @ \cup {scope} ELSE @,
                        !.fetches = @ \cup {FetchEntry(scope, o.since, o.readErr,
                                                       o.stored, o.syncSince)},
                        !.proj[CurProject].fetched = @ \cup {o.pTeamIdx}]
     IN \/ /\ o' = IF Len(issues) = 0
                   THEN AtProjectTeam(o, o.pTeamIdx + 1)
                   ELSE [o EXCEPT !.pc = "projSave", !.issues = issues, !.k = 1]
           /\ g' = h
        \/ /\ CanFail
           /\ o' = AtProjectTeam(o, o.pTeamIdx + 1)
           /\ g' = Fault([h EXCEPT !.proj[CurProject].failed = TRUE,
                                   !.proj[CurProject].fetchErr = TRUE])
  /\ UNCHANGED << cfg, db, ghPRs, jiraIssues, now, tasks, bus, wp, totalPRs, last, call, cmd, fn >>

\* lines 226-232: issueRepo.Save of the next issue of the batch
ProjSave ==
  /\ o.pc = "projSave"
  /\ LET scope == ProjScope(CurProject)
         h == [g EXCEPT !.late = IF g.wmWrites[scope] > 0 THEN @ \cup {scope} ELSE @]
         next == IF o.k < Len(o.issues)
                 THEN [o EXCEPT !.k = @ + 1]
                 ELSE AtProjectTeam(o, o.pTeamIdx + 1)
     IN \/ /\ db' = SaveIssue(db, o.issues[o.k])
           /\ o' = [next EXCEPT !.totalIssues = @ + 1]
           /\ g' = [h EXCEPT !.proj[CurProject].saved = @ + 1]
        \/ /\ CanFail
           /\ db' = db
           /\ o' = next
           /\ g' = Fault([h EXCEPT !.proj[CurProject].failed = TRUE])
  /\ UNCHANGED << cfg, ghPRs, jiraIssues, now, tasks, bus, wp, totalPRs, last, call, cmd, fn >>

\* lines 235-237: issueRepo.UpdateLastSync stores time.Now()
ProjUpdateLastSync ==
  /\ o.pc = "projUpdate"
  /\ LET scope == ProjScope(CurProject)
     IN \/ /\ now' = now + 1
           /\ db' = UpdateLastSyncIssue(db, CurProject, now)
           /\ g' = [g EXCEPT !.wmWrites[scope] = @ + 1,
                             !.proj[CurProject].wm = "ok"]
        \/ /\ CanFail
           /\ UNCHANGED << db, now >>
           /\ g' = Fault([g EXCEPT !.proj[CurProject].wm = "fail"])
  /\ o' = [o EXCEPT !.pc = "project", !.projIdx = @ + 1]
  /\ UNCHANGED << cfg, ghPRs, jiraIssues, tasks, bus, wp, totalPRs, last, call, cmd, fn >>

\* the process is gone: its memory with it, the store and the upstream stay
Ended(code) ==
  /\ o' = [IdleO EXCEPT !.exitCode = code]
  /\ tasks' = <<>>
  /\ bus' = [i \in 1..Len(Teams) |-> <<>>]
  /\ wp' = 0
  /\ totalPRs' = 0
  /\ g' = FreshG(g.runs, g.edits, db,
                 [clean |-> code = 0 /\ g.faults = 0, since |-> o.since])
  /\ UNCHANGED << cfg, db, ghPRs, jiraIssues, now, last, call, cmd, fn >>

\* lines 240-241 and the deferred calls: the summary, return 0, close(bus) of
\* every team, db.Close()
Return ==
  /\ o.pc = "project" /\ o.projIdx > Len(Projects)
  /\ o' = [o EXCEPT !.pc = "returned", !.exitCode = 0, !.dbOpen = FALSE]
  /\ UNCHANGED << cfg, db, ghPRs, jiraIssues, now, tasks, bus, wp, totalPRs, g, last, call, cmd, fn >>

\* os.Exit in main after Run returned: the goroutines still running end with
\* the process
Exit ==
  /\ o.pc = "returned"
  /\ Ended(0)

\* a task sending, or blocked sending, on a channel the deferred close(bus)
\* closed: the runtime panics and the process dies
Panic ==
  /\ o.pc = "returned"
  /\ \E id \in DOMAIN tasks : Live(id) /\ tasks[id].pending # ""
  /\ Ended(2)

\* the process is killed while runSync runs
Crash ==
  /\ o.pc \notin {"idle", "returned"}
  /\ Ended(2)

\* between two runs somebody edits a pull request or an issue upstream
UpstreamEdit ==
  /\ o.pc = "idle"
  /\ g.edits < MaxEdits
  /\ \/ \E p \in ghPRs :
          /\ p.Title = "t1"
          /\ ghPRs' = (ghPRs \ {p}) \cup {[p EXCEPT !.Title = "t2"]}
          /\ jiraIssues' = jiraIssues
     \/ \E i \in jiraIssues :
          /\ i.Summary = "t1"
          /\ jiraIssues' = (jiraIssues \ {i}) \cup {[i EXCEPT !.Summary = "t2"]}
          /\ ghPRs' = ghPRs
  /\ g' = [g EXCEPT !.edits = @ + 1, !.prev = NoPrev]
  /\ UNCHANGED << cfg, db, now, o, tasks, bus, wp, totalPRs, last, call, cmd, fn >>

\* between two runs a pull request or an issue is deleted upstream
UpstreamRemove ==
  /\ o.pc = "idle"
  /\ g.edits < MaxEdits
  /\ \/ \E p \in ghPRs : ghPRs' = ghPRs \ {p} /\ jiraIssues' = jiraIssues
     \/ \E i \in jiraIssues : jiraIssues' = jiraIssues \ {i} /\ ghPRs' = ghPRs
  /\ g' = [g EXCEPT !.edits = @ + 1, !.prev = NoPrev]
  /\ UNCHANGED << cfg, db, now, o, tasks, bus, wp, totalPRs, last, call, cmd, fn >>

\* the steps of a run: what runSync and its tasks do, under every
\* interleaving, and how the process ends
Step ==
  \/ Work
  \/ Receive
  \/ \E id \in TaskIds : TaskValidate(id)
  \/ \E id \in TaskIds : TaskGetLastSync(id)
  \/ \E id \in TaskIds : TaskFetch(id)
  \/ \E id \in TaskIds : TaskSave(id)
  \/ \E id \in TaskIds : TaskIncr(id)
  \/ \E id \in TaskIds : TaskUpdateLastSync(id)
  \/ \E id \in TaskIds : TaskSend(id)
  \/ \E id \in TaskIds : TaskFinish(id)
  \/ ProjValidate
  \/ ProjGetLastSync
  \/ ProjFetch
  \/ ProjSave
  \/ ProjUpdateLastSync
  \/ Return
  \/ Exit
  \/ Panic
  \/ Crash

\* one run of the two-team configuration, with any flags
Next ==
  \/ \E filter \in Filters, since \in Sinces : StartRun(filter, since)
  \/ Step

Spec == Init /\ [][Next]_vars

\* a sequence of runs of the small configuration, the upstream changing
\* between them
RunsInit == InitWith(SmallConfig, {EmptyDB})

RunsNext ==
  \/ \E since \in Sinces : StartRun("", since)
  \/ Step
  \/ UpstreamEdit
  \/ UpstreamRemove

RunsSpec == RunsInit /\ [][RunsNext]_vars

\* at any moment, a run in progress or not, one of the configured identities
\* opens a pull request in repository A or files an issue in project P; time
\* goes on. The records the run before saw are as they were
UpstreamCreate ==
  /\ g.edits < MaxEdits
  /\ \/ /\ ghPRs' = ghPRs \cup {GhPR("A", 9, "alice", now, "open", NilTime, "t1")}
        /\ jiraIssues' = jiraIssues
     \/ /\ jiraIssues' = jiraIssues \cup
             {JiraIssue("P", "P-9", "alice", now, now, "Open", NilTime, <<>>, "t1")}
        /\ ghPRs' = ghPRs
  /\ now' = now + 1
  /\ g' = [g EXCEPT !.edits = @ + 1]
  /\ UNCHANGED << cfg, db, o, tasks, bus, wp, totalPRs, last, call, cmd, fn >>

\* runs of the small configuration without flags, the upstream growing
\* meanwhile
GrowInit == InitWith(SmallConfig, {EmptyDB})

GrowNext ==
  \/ StartRun("", NilTime)
  \/ Step
  \/ UpstreamCreate

GrowSpec == GrowInit /\ [][GrowNext]_vars

\* two teams, and two repositories and two projects listed against the
\* alphabet: the configuration the order of the scopes is followed on
OrderConfig ==
  [Teams |-> << Core, Web >>, Repositories |-> << "B", "A" >>,
   Projects |-> << "Q", "P" >>]
OrderInit == InitWith(OrderConfig, {EmptyDB})
\* the one run of such a configuration, without flags
StartOnce == g.runs = 0 /\ StartRun("", NilTime)
OrderNext ==
  \/ StartOnce
  \/ Step
OrderSpec == OrderInit /\ [][OrderNext]_vars

\* a team with no code-hosting username, a team with no issue-tracker
\* username and a team whose members have one, the other, or both: the
\* configuration the identities handed to the connectors are followed on
Docs == [Name |-> "Docs", Members |-> << Member("", "carol") >>]
Bots == [Name |-> "Bots", Members |-> << Member("bob", "") >>]
IdentConfig ==
  [Teams |-> << Docs, Bots, Solo >>, Repositories |-> << "A" >>,
   Projects |-> << "P" >>]
IdentInit == InitWith(IdentConfig, {EmptyDB})
IdentNext ==
  \/ StartOnce
  \/ Step
IdentSpec == IdentInit /\ [][IdentNext]_vars

\* two teams on one repository, and a project: the configuration the
\* watermark writes are followed on, the clock read of each repository task
\* a step of its own
StampConfig ==
  [Teams |-> << Core, Web >>, Repositories |-> << "A" >>, Projects |-> << "P" >>]
StampInit == InitWith(StampConfig, {EmptyDB, PriorDB})
StampNext ==
  \/ \E since \in Sinces : g.runs = 0 /\ StartRun("", since)
  \/ Step
  \/ \E id \in TaskIds : TaskNow(id)
StampSpec == StampInit /\ [][StampNext]_vars

\* ------------------------------------------------- the store, called directly
\* Any caller, any order: each call is one SQL statement, which SQLite runs
\* atomically, so concurrent callers are an interleaving of these calls.
StorePRs ==
  { MapPRToDomain(GhPR(repo, number, "alice", 1, "open", NilTime, "t1"), repo) :
      repo \in {"A", "B"}, number \in {1, 2} }
  \cup { MapPRToDomain(GhPR("A", 1, "alice", 1, "closed", SomeTime(2), "t2"), "A") }
StoreIssues ==
  { MapIssueToDomain(JiraIssue(project, key, "alice", 1, 2, "Open", NilTime,
                               << "x", "y" >>, "t1"), project) :
      project \in {"P", "Q"}, key \in {"P-1", "P-2"} }
  \cup { MapIssueToDomain(JiraIssue("P", "P-1", "alice", 1, 2, "Done", NilTime,
                                    <<>>, "t2"), "P") }

\* history: the call, its argument and what it met, for a call that succeeded
Call(op, ok, arg, replaced, changed) ==
  IF ok THEN [op |-> op, ok |-> TRUE, n |-> last.n + 1, arg |-> arg,
              replaced |-> replaced, changed |-> changed]
  ELSE [NoCall EXCEPT !.op = op, !.n = last.n + 1]

\* PRRepository.Save: the statement runs, or Exec fails and nothing is written
CallSavePR(pr, ok) ==
  /\ last.n < MaxCalls
  /\ db' = IF ok THEN SavePR(db, pr) ELSE db
  /\ last' = Call("SavePR", ok, pr, PRConflicts(db.pull_requests, pr) # {},
                  \E r \in PRConflicts(db.pull_requests, pr) : r # PRRow(r.id, pr))
  /\ UNCHANGED << cfg, ghPRs, jiraIssues, now, o, tasks, bus, wp, totalPRs, g, call, cmd, fn >>

\* IssueRepository.Save
CallSaveIssue(issue, ok) ==
  /\ last.n < MaxCalls
  /\ db' = IF ok THEN SaveIssue(db, issue) ELSE db
  /\ last' = Call("SaveIssue", ok, issue, IssueConflicts(db.issues, issue) # {},
                  \E r \in IssueConflicts(db.issues, issue) : r # IssueRow(r.id, issue))
  /\ UNCHANGED << cfg, ghPRs, jiraIssues, now, o, tasks, bus, wp, totalPRs, g, call, cmd, fn >>

\* PRRepository.UpdateLastSync at time.Now()
CallUpdateLastSyncPR(repository, ok) ==
  /\ last.n < MaxCalls
  /\ db' = IF ok THEN UpdateLastSyncPR(db, repository, now) ELSE db
  /\ now' = now + 1
  /\ last' = Call("UpdateLastSyncPR", ok, repository,
                  GetLastSyncPR(db, repository) # NilTime, FALSE)
  /\ UNCHANGED << cfg, ghPRs, jiraIssues, o, tasks, bus, wp, totalPRs, g, call, cmd, fn >>

\* IssueRepository.UpdateLastSync at time.Now()
CallUpdateLastSyncIssue(project, ok) ==
  /\ last.n < MaxCalls
  /\ db' = IF ok THEN UpdateLastSyncIssue(db, project, now) ELSE db
  /\ now' = now + 1
  /\ last' = Call("UpdateLastSyncIssue", ok, project,
                  GetLastSyncIssue(db, project) # NilTime, FALSE)
  /\ UNCHANGED << cfg, ghPRs, jiraIssues, o, tasks, bus, wp, totalPRs, g, call, cmd, fn >>

StoreInit == InitWith(SmallConfig, {EmptyDB, PriorDB})

StoreNext ==
  \/ \E pr \in StorePRs, ok \in BOOLEAN : CallSavePR(pr, ok)
  \/ \E issue \in StoreIssues, ok \in BOOLEAN : CallSaveIssue(issue, ok)
  \/ \E repository \in {"A", "B"}, ok \in BOOLEAN : CallUpdateLastSyncPR(repository, ok)
  \/ \E project \in {"P", "Q"}, ok \in BOOLEAN : CallUpdateLastSyncIssue(project, ok)

StoreSpec == StoreInit /\ [][StoreNext]_vars

\* --------------------------------------- the connectors, request by request
\* The upstream the connectors page through: n pull requests of repository A,
\* alice's and bob's in turn, and n issues of project P assigned to alice next
\* to one of carol's; n lies around the multiples of the page size
Sizes == {0, 1} \cup {k * PerPage + d : k \in 1..Pages, d \in {0 - 1, 0, 1}}
BigPRs(n) ==
  {GhPR("A", i, IF i % 2 = 1 THEN "alice" ELSE "bob", i, "open", NilTime, "t1")
     : i \in 1..n}
BigIssues(n) ==
  {JiraIssue("P", ToString(i), "alice", i, i, "Open", NilTime, <<>>, "t1")
     : i \in 1..n}
  \cup {JiraIssue("P", "C-1", "carol", 1, 1, "Open", NilTime, <<>>, "t1")}

\* what the API pages through for the query of identity u of the call
Served(c, u) ==
  IF c.kind = "github" THEN ListPRs(ghPRs, c.scope)
  ELSE SearchIssues(jiraIssues, [Project |-> c.scope, Assignee |-> c.usernames[u],
                                 Since |-> c.since])

\* FetchPRsForTeamMembers / FetchIssuesForTeamMembers is entered: the loop over
\* the usernames starts, and with it the page loop of the first username
ConnCall(kind, scope, usernames, since) ==
  /\ call.pc = "idle"
  /\ LET c == [call EXCEPT !.kind = kind, !.scope = scope,
                           !.usernames = usernames, !.since = since]
     IN call' = [c EXCEPT !.pc = "page", !.u = 1,
                          !.at = IF kind = "github" THEN 1 ELSE 0,
                          !.listing = Served(c, 1)]
  /\ UNCHANGED << cfg, db, ghPRs, jiraIssues, now, o, tasks, bus, wp, totalPRs,
                  g, last, cmd, fn >>

\* a defective variant: the page loop of FetchPRs goes on after every full page
PRLoopEnds_ByPageSize(got, nextPage) == got < PerPage

\* client.go lines 62-64: if resp.NextPage == 0 { break }
PRLoopEnds(got, nextPage) == nextPage = 0

\* a defective variant: the page loop of FetchIssues ends on an empty page only
IssueLoopEnds_OnEmpty(got) == got = 0

\* part_004 lines 563-565: if len(searchResult) < searchOptions.MaxResults { break }
IssueLoopEnds(got) == got < MaxResults

\* the page loop of one username has ended: its records join those of the
\* usernames before it, and the loop over the usernames goes on or returns
ConnNext(c, records) ==
  LET all == c.all \o records
      d == [c EXCEPT !.all = all, !.acc = <<>>, !.ends = Append(@, Len(all)),
                     !.served = Append(@, c.listing)]
  IN IF c.u = Len(c.usernames)
     THEN [d EXCEPT !.pc = "done", !.result = all, !.listing = <<>>]
     ELSE [d EXCEPT !.u = c.u + 1, !.at = IF c.kind = "github" THEN 1 ELSE 0,
                    !.listing = Served(c, c.u + 1)]

\* a defective variant: a failed request ends the call with what it has so far
ConnFail_Partial(c) ==
  [c EXCEPT !.pc = "done", !.err = TRUE, !.result = c.all \o c.acc,
            !.listing = <<>>,
            !.requests = Append(@, [u |-> c.u, at |-> c.at, got |-> 0, next |-> 0,
                                    ok |-> FALSE])]

\* a failed request: FetchPRs / FetchIssues returns nil and the error, and so
\* does the loop over the usernames
ConnFail(c) ==
  [c EXCEPT !.pc = "done", !.err = TRUE, !.result = <<>>, !.listing = <<>>,
            !.requests = Append(@, [u |-> c.u, at |-> c.at, got |-> 0, next |-> 0,
                                    ok |-> FALSE])]

\* one PullRequests.List request of FetchPRs, client.go lines 42-67
PRPage ==
  /\ call.pc = "page" /\ call.kind = "github"
  /\ \/ LET prs == PageOf(call.listing, call.at, PerPage)
            next == NextPage(call.listing, call.at, PerPage)
            filter == [Repository |-> call.scope, Author |-> call.usernames[call.u],
                       Since |-> call.since, State |-> "all"]
            acc == call.acc \o KeepPRs(prs, filter, 1)
            c == [call EXCEPT !.requests =
                    Append(@, [u |-> call.u, at |-> call.at, got |-> Len(prs),
                               next |-> next, ok |-> TRUE])]
        IN call' = IF PRLoopEnds(Len(prs), next) THEN ConnNext(c, acc)
                   ELSE [c EXCEPT !.acc = acc, !.at = call.at + 1]
     \/ call' = ConnFail(call)
  /\ UNCHANGED << cfg, db, ghPRs, jiraIssues, now, o, tasks, bus, wp, totalPRs,
                  g, last, cmd, fn >>

\* one Issue.Search request of FetchIssues, part_004 lines 551-568
IssuePage ==
  /\ call.pc = "page" /\ call.kind = "jira"
  /\ \/ LET page == SubSeq(call.listing, call.at + 1,
                           Min(call.at + MaxResults, Len(call.listing)))
            acc == call.acc \o MapIssues(page, call.scope, 1)
            c == [call EXCEPT !.requests =
                    Append(@, [u |-> call.u, at |-> call.at, got |-> Len(page),
                               next |-> 0, ok |-> TRUE])]
        IN call' = IF IssueLoopEnds(Len(page)) THEN ConnNext(c, acc)
                   ELSE [c EXCEPT !.acc = acc, !.at = call.at + MaxResults]
     \/ call' = ConnFail(call)
  /\ UNCHANGED << cfg, db, ghPRs, jiraIssues, now, o, tasks, bus, wp, totalPRs,
                  g, last, cmd, fn >>

ConnInit ==
  /\ cfg = SmallConfig
  /\ db = EmptyDB
  /\ \E n \in Sizes : ghPRs = BigPRs(n) /\ jiraIssues = BigIssues(n)
  /\ now = 3
  /\ o = IdleO
  /\ tasks = <<>>
  /\ bus = [i \in 1..Len(Teams) |-> <<>>]
  /\ wp = 0
  /\ totalPRs = 0
  /\ g = FreshG(0, 0, db, NoPrev)
  /\ last = NoCall
  /\ call = NoConn
  /\ cmd = NoCmd
  /\ fn = NoFn
ConnStep ==
  \/ \E usernames \in {<< "alice" >>, << "alice", "bob" >>},
        since \in {NilTime, SomeTime(2)} :
       ConnCall("github", "A", usernames, since)
  \/ \E usernames \in {<< "alice" >>, << "carol", "alice" >>},
        since \in {NilTime, SomeTime(2)} :
       ConnCall("jira", "P", usernames, since)
  \/ PRPage
  \/ IssuePage
ConnSpec == ConnInit /\ [][ConnStep]_vars

\* ------------------------------------------------ the command, invoked
\* time.Parse("2006-01-02", s): four digits, two, two, a month and a day that
\* exist; the model's clock counts DayLen ticks a day from 2024-01-01
ParseDate(s) ==
  CASE s = "2024-01-01" -> [ok |-> TRUE, t |-> 0]
    [] s = "2024-01-02" -> [ok |-> TRUE, t |-> DayLen]
    [] OTHER -> [ok |-> FALSE, t |-> 0]
SinceArgs == {"", "2024-01-01", "2024-02-30", "yesterday"}

\* a defective variant: a -since value that does not parse is dropped
Prologue_SinceDropped(args, env) ==
  IF args.dryRun THEN [go |-> FALSE, code |-> 2, out |-> "usage", since |-> NilTime]
  ELSE IF ~env.configExists
  THEN [go |-> FALSE, code |-> 1, out |-> "No configuration found", since |-> NilTime]
  ELSE IF env.loadErr
  THEN [go |-> FALSE, code |-> 1, out |-> "Error loading configuration", since |-> NilTime]
  ELSE IF env.GITHUB_TOKEN = ""
  THEN [go |-> FALSE, code |-> 1, out |-> "GITHUB_TOKEN required", since |-> NilTime]
  ELSE IF env.JIRA_API_TOKEN = "" \/ env.JIRA_USERNAME = ""
  THEN [go |-> FALSE, code |-> 1, out |-> "JIRA_API_TOKEN and JIRA_USERNAME required",
        since |-> NilTime]
  ELSE [go |-> TRUE, code |-> 0, out |-> "",
        since |-> IF args.since # "" /\ ParseDate(args.since).ok
                  THEN SomeTime(ParseDate(args.since).t) ELSE NilTime]

\* SyncCommand.Run up to the call of runSync (lines 46-88). Run defines the
\* flags since and team only: flag.CommandLine, an ExitOnError flag set,
\* answers any other flag, -dry-run among them, with the usage text and
\* os.Exit(2)
Prologue(args, env) ==
  IF args.dryRun THEN [go |-> FALSE, code |-> 2, out |-> "usage", since |-> NilTime]
  ELSE IF ~env.configExists
  THEN [go |-> FALSE, code |-> 1, out |-> "No configuration found", since |-> NilTime]
  ELSE IF env.loadErr
  THEN [go |-> FALSE, code |-> 1, out |-> "Error loading configuration", since |-> NilTime]
  ELSE IF env.GITHUB_TOKEN = ""
  THEN [go |-> FALSE, code |-> 1, out |-> "GITHUB_TOKEN required", since |-> NilTime]
  ELSE IF env.JIRA_API_TOKEN = "" \/ env.JIRA_USERNAME = ""
  THEN [go |-> FALSE, code |-> 1, out |-> "JIRA_API_TOKEN and JIRA_USERNAME required",
        since |-> NilTime]
  ELSE IF args.since # "" /\ ~ParseDate(args.since).ok
  THEN [go |-> FALSE, code |-> 1, out |-> "Invalid date format for -since",
        since |-> NilTime]
  ELSE [go |-> TRUE, code |-> 0, out |-> "",
        since |-> IF args.since = "" THEN NilTime
                  ELSE SomeTime(ParseDate(args.since).t)]

\* `fmt sync` is invoked: Run parses the flags and checks the configuration
\* and the environment, and returns or exits unless all of it is in order
Invoke(args, env) ==
  /\ cmd.pc = "none" /\ o.pc = "idle"
  /\ LET p == Prologue(args, env)
     IN /\ cmd' = [pc |-> IF p.go THEN "runSync" ELSE "exited", args |-> args,
                   env |-> env, since |-> p.since, code |-> p.code, out |-> p.out]
        /\ o' = IF p.go THEN o ELSE [IdleO EXCEPT !.exitCode = p.code]
  /\ UNCHANGED << cfg, db, ghPRs, jiraIssues, now, tasks, bus, wp, totalPRs, g,
                  last, call, fn >>

\* line 88: runSync is entered with the flags' values
EnterRunSync ==
  /\ cmd.pc = "runSync"
  /\ g.runs = 0
  /\ StartRun(cmd.args.team, cmd.since)

\* a configuration that lists repositories and no issue-tracking project
RepoOnlyConfig == [SmallConfig EXCEPT !.Projects = <<>>]

CmdInit ==
  /\ cfg \in {SmallConfig, RepoOnlyConfig}
  /\ db \in {EmptyDB, PriorDB}
  /\ ghPRs = InitGhPRs
  /\ jiraIssues = InitJiraIssues
  /\ now = 3
  /\ o = IdleO
  /\ tasks = <<>>
  /\ bus = [i \in 1..Len(Teams) |-> <<>>]
  /\ wp = 0
  /\ totalPRs = 0
  /\ g = FreshG(0, 0, db, NoPrev)
  /\ last = NoCall
  /\ call = NoConn
  /\ cmd = NoCmd
  /\ fn = NoFn
CmdNext ==
  \/ \E args \in [dryRun : BOOLEAN, since : SinceArgs, team : {"", "Ops"}],
        env \in [configExists : BOOLEAN, loadErr : BOOLEAN,
                 GITHUB_TOKEN : {"", "ght"}, JIRA_API_TOKEN : {"", "jt"},
                 JIRA_USERNAME : {"", "ju"}, NumCPU : {PoolSize}] :
       Invoke(args, env)
  \/ EnterRunSync
  \/ Step
CmdSpec == CmdInit /\ [][CmdNext]_vars

\* ----------------------------------------------- a run, followed to its end
\* One run of LiveConfig on a machine of 1..PoolSize CPUs, in which every
\* call returns and nobody kills the process: runSync and each task go on
\* whenever they can
LiveTaskIds == {<< 1, 1 >>, << 2, 1 >>}
LiveInit ==
  /\ cfg = LiveConfig
  /\ db = EmptyDB
  /\ ghPRs = InitGhPRs
  /\ jiraIssues = InitJiraIssues
  /\ now = 3
  /\ o = IdleO
  /\ tasks = <<>>
  /\ bus = [i \in 1..Len(Teams) |-> <<>>]
  /\ wp = 0
  /\ totalPRs = 0
  /\ g = FreshG(0, 0, db, NoPrev)
  /\ last = NoCall
  /\ call = NoConn
  /\ \E n \in 1..PoolSize : cmd = [NoCmd EXCEPT !.env.NumCPU = n]
  /\ fn = NoFn
LiveStart == g.runs = 0 /\ StartRun("", NilTime)
OrchStep == LiveStart \/ Work \/ Receive \/ Return \/ Exit \/ Panic
TaskStep(id) ==
  \/ TaskValidate(id)
  \/ TaskGetLastSync(id)
  \/ TaskFetch(id)
  \/ TaskSave(id)
  \/ TaskIncr(id)
  \/ TaskUpdateLastSync(id)
  \/ TaskSend(id)
  \/ TaskFinish(id)
LiveNext ==
  \/ LiveStart
  \/ Work
  \/ Receive
  \/ Return
  \/ Exit
  \/ Panic
  \/ \E id \in LiveTaskIds : TaskStep(id)
LiveSpec ==
  /\ LiveInit /\ [][LiveNext]_vars
  /\ WF_vars(OrchStep)
  /\ \A id \in LiveTaskIds : WF_vars(TaskStep(id))

\* --------------------- the functions of the domain model and the connectors
\* the teams filterTeams is tried on: names that differ in letter case only,
\* and a name that contains another
TeamPool ==
  { Core, Web, [Core EXCEPT !.Name = "core"], [Web EXCEPT !.Name = "CoreWeb"] }
TeamLists == UNION {[1..n -> TeamPool] : n \in 0..MaxTeams}
TeamFilters == {"", "CORE", "core", "Core", "Cor", "Web", "Ops"}

\* c.filterTeams(teams, filter) is called
ApplyFilterTeams(teams, filter) ==
  /\ fn' = [op |-> "filterTeams", arg |-> << teams, filter >>,
            res |-> filterTeams(teams, filter)]
  /\ UNCHANGED << cfg, db, ghPRs, jiraIssues, now, o, tasks, bus, wp, totalPRs,
                  g, last, call, cmd >>

\* the status names the functions are tried on
Statuses ==
  {"", "Done", "done", "DONE", "Closed", "closed", "Resolved", "RESOLVED",
   "Complete", "Completed", "completed", "Open", "In Progress", "Undone"}

\* jira.MapIssueToDomain(jiraIssue, project) is called on an upstream issue
\* of the given status, update time and resolution date
ApplyMapIssueToDomain(status, updated, resolution) ==
  /\ LET jiraIssue == JiraIssue("P", "P-1", "alice", 1, updated, status,
                                resolution, <<>>, "t1")
     IN fn' = [op |-> "MapIssueToDomain", arg |-> jiraIssue,
               res |-> MapIssueToDomain(jiraIssue, jiraIssue.Project)]
  /\ UNCHANGED << cfg, db, ghPRs, jiraIssues, now, o, tasks, bus, wp, totalPRs,
                  g, last, call, cmd >>

\* issue.IsResolved() is called on the mapped issue of the given status
ApplyIsResolved(status) ==
  /\ LET issue == MapIssueToDomain(
                    JiraIssue("P", "P-1", "alice", 1, 2, status, NilTime, <<>>,
                              "t1"), "P")
     IN fn' = [op |-> "IsResolved", arg |-> issue, res |-> IsResolved(issue)]
  /\ UNCHANGED << cfg, db, ghPRs, jiraIssues, now, o, tasks, bus, wp, totalPRs,
                  g, last, call, cmd >>

\* pr.CycleTime() is called on the mapped pull request of the given creation
\* time, state and merge time
ApplyCycleTime(created, state, merged) ==
  /\ LET pr == MapPRToDomain(
                 GhPR("A", 1, "alice", created, state, merged, "t1"), "A")
     IN fn' = [op |-> "CycleTime", arg |-> pr, res |-> CycleTime(pr)]
  /\ UNCHANGED << cfg, db, ghPRs, jiraIssues, now, o, tasks, bus, wp, totalPRs,
                  g, last, call, cmd >>

\* the identity lists FetchPRsForTeamMembers is tried on: an author of the
\* repository, one of another repository only, one of none; a name twice
IdentityLists ==
  UNION {[1..n -> {"alice", "bob", "zed"}] : n \in 0..MaxTeams}

\* ghClient.FetchPRsForTeamMembers(ctx, repository, usernames, since) is
\* called and every request succeeds
ApplyFetchPRsForTeamMembers(repository, usernames, since) ==
  /\ fn' = [op |-> "FetchPRsForTeamMembers",
            arg |-> << repository, usernames, since >>,
            res |-> FetchPRsForTeamMembers(ghPRs, repository, usernames, since)]
  /\ UNCHANGED << cfg, db, ghPRs, jiraIssues, now, o, tasks, bus, wp, totalPRs,
                  g, last, call, cmd >>

FnInit ==
  /\ cfg = SmallConfig
  /\ db = EmptyDB
  /\ ghPRs = InitGhPRs
  /\ jiraIssues = InitJiraIssues
  /\ now = 3
  /\ o = IdleO
  /\ tasks = <<>>
  /\ bus = [i \in 1..Len(Teams) |-> <<>>]
  /\ wp = 0
  /\ totalPRs = 0
  /\ g = FreshG(0, 0, db, NoPrev)
  /\ last = NoCall
  /\ call = NoConn
  /\ cmd = NoCmd
  /\ fn = NoFn
FnNext ==
  \/ \E teams \in TeamLists, filter \in TeamFilters : ApplyFilterTeams(teams, filter)
  \/ \E status \in Statuses, updated \in 1..MaxTime,
        resolution \in {NilTime} \cup {SomeTime(t) : t \in 0..MaxTime} :
       ApplyMapIssueToDomain(status, updated, resolution)
  \/ \E status \in Statuses : ApplyIsResolved(status)
  \/ \E created \in 0..MaxTime, state \in {"open", "closed"},
        merged \in {NilTime} \cup {SomeTime(t) : t \in 0..MaxTime} :
       ApplyCycleTime(created, state, merged)
  \/ \E repository \in {"A", "B"}, usernames \in IdentityLists,
        since \in {NilTime} \cup {SomeTime(t) : t \in 0..MaxTime} :
       ApplyFetchPRsForTeamMembers(repository, usernames, since)
FnSpec == FnInit /\ [][FnNext]_vars

\* ------------------------------------------------------------- properties
IndexOf(seq, x) == CHOOSE i \in 1..Len(seq) : seq[i] = x
PRKey(r) == << r.github_pr_id, r.repository >>
IssueKey(r) == << r.jira_issue_id, r.project >>
PRKeys(d) == {PRKey(r) : r \in d.pull_requests}
IssueKeys(d) == {IssueKey(r) : r \in d.issues}
\* the records of a store, their local ids left aside
RecordsOf(d) ==
  [prs |-> {[r EXCEPT !.id = 0] : r \in d.pull_requests},
   issues |-> {[r EXCEPT !.id = 0] : r \in d.issues}]
\* every pull request of a batch is in the store with exactly its values
Upserted(batch) ==
  \A i \in 1..Len(batch) : \E r \in db.pull_requests : r = PRRow(r.id, batch[i])

\* C1: the lower bound of every fetch call is the explicit -since when one
\* was given; otherwise the stored watermark of the scope, when one exists
\* and GetLastSync read it without an error; otherwise it is unset.
C1_SinceResolved ==
  \A e \in g.fetches :
    e.since = IF e.given # NilTime THEN e.given
              ELSE IF e.readErr THEN NilTime
              ELSE e.stored

\* C1 as the specification words it: without -since the bound is the stored
\* watermark whenever the store holds one.
C1_AsClaimed ==
  \A e \in g.fetches :
    e.since = IF e.given # NilTime THEN e.given ELSE e.stored

\* a repository and a project, each holding a watermark, both fetched with
\* the explicit -since
C1_Witness ==
  /\ \E e \in g.fetches :
       e.scope[1] = "github" /\ e.given # NilTime /\ e.stored # NilTime
         /\ e.stored # e.given /\ ~e.readErr
  /\ \E e \in g.fetches :
       e.scope[1] = "jira" /\ e.given # NilTime /\ e.stored # NilTime
         /\ e.stored # e.given /\ ~e.readErr

\* C2: in a run the watermark of a scope is written at most once, and no
\* fetch or upsert of the scope runs after that write.
C2_AsClaimed ==
  o.pc # "idle" =>
    \A s \in Scopes : g.wmWrites[s] <= 1 /\ s \notin g.late

\* every selected team with code-hosting identities has fetched the
\* repository without an error and upserted all it fetched
RepoComplete(r) ==
  \A i \in 1..Len(o.teamsToSync) :
    Len(extractGitHubUsernames(o.teamsToSync[i].Members)) > 0 =>
      LET id == << i, IndexOf(Repositories, r) >>
      IN /\ id \in DOMAIN tasks
         /\ tasks[id].access = "ok" /\ tasks[id].fetched /\ ~tasks[id].fetchErr
         /\ tasks[id].saveErrs = 0 /\ tasks[id].saved = Len(tasks[id].prs)
\* the team loop of the project has ended with no failed fetch or save
ProjComplete(p) ==
  /\ g.proj[p].access = "ok" /\ ~g.proj[p].failed
  /\ \/ IndexOf(Projects, p) < o.projIdx
     \/ IndexOf(Projects, p) = o.projIdx /\ o.pc = "projUpdate"
ScopeComplete(s) ==
  IF s[1] = "github" THEN RepoComplete(s[2]) ELSE ProjComplete(s[2])

\* C3: while a run has executed no UpdateLastSync for a scope, the scope's
\* stored watermark is the one the run started with; a crash at that point
\* leaves it so.
C3_NoWriteNoChange ==
  o.pc # "idle" =>
    \A s \in Scopes :
      g.wmWrites[s] = 0 => Watermark(db, s) = Watermark(g.start, s)

\* C3 as the specification words it: the watermark is the one the run
\* started with as long as the records of the scope are not all fetched and
\* upserted.
C3_AsClaimed ==
  o.pc # "idle" =>
    \A s \in Scopes :
      ~ScopeComplete(s) => Watermark(db, s) = Watermark(g.start, s)

\* a task has upserted what it fetched for a repository that holds a
\* watermark, and stands before the write, another scope already written
C3_Witness ==
  \E id \in DOMAIN tasks :
    /\ tasks[id].pc = "updateLastSync" /\ tasks[id].saved > 0
    /\ g.wmWrites[RepoScope(tasks[id].repo)] = 0
    /\ Watermark(g.start, RepoScope(tasks[id].repo)) # NilTime
    /\ \E s \in Scopes : g.wmWrites[s] > 0

\* C4: a scope whose fetch returned an error still gets its watermark
\* written, a repository like a project.
C4_AsClaimed ==
  /\ \A id \in DOMAIN tasks :
       (tasks[id].pc = "done" /\ tasks[id].fetchErr) => tasks[id].wm # "none"
  /\ \A p \in Range(Projects) :
       (g.proj[p].fetchErr /\ IndexOf(Projects, p) < o.projIdx)
         => g.proj[p].wm # "none"

C6_AsClaimed ==
  (o.pc = "returned"
     /\ (\/ \E a \in DOMAIN tasks : tasks[a].access = "fail"
         \/ \E p \in Range(Projects) : g.proj[p].access = "fail")) =>
    /\ o.exitCode = 0
    /\ \A b \in DOMAIN tasks :
         (tasks[b].access = "ok" /\ ~tasks[b].fetchErr /\ tasks[b].saveErrs = 0
            /\ tasks[b].wm # "fail")
           => tasks[b].fetched /\ Upserted(tasks[b].prs) /\ tasks[b].wm = "ok"
    /\ \A p \in Range(Projects) :
         (g.proj[p].access = "ok" /\ ~g.proj[p].failed /\ g.proj[p].wm # "fail")
           => g.proj[p].wm = "ok"

\* C7: when a run follows a run with the same flags, both returning 0 with no
\* failed call and the upstream unchanged between them, the record store after
\* the second run holds the same rows, with the same field values for every
\* key, as after the first (the local row ids left aside).
C7_AsClaimed ==
  (o.pc = "returned" /\ g.prev.clean /\ g.faults = 0 /\ o.since = g.prev.since)
    => RecordsOf(db) = RecordsOf(g.start)

\* C8: whatever Save and UpdateLastSync calls were made, the store holds at
\* most one pull request per (GitHubPRID, Repository), at most one issue per
\* (JiraIssueID, Project) and at most one watermark row per scope.
C8_UniqueRows ==
  /\ \A r, q \in db.pull_requests : PRKey(r) = PRKey(q) => r = q
  /\ \A r, q \in db.issues : IssueKey(r) = IssueKey(q) => r = q
  /\ \A r, q \in db.sync_runs : r.repository = q.repository => r = q
  /\ \A r, q \in db.jira_sync_runs : r.project = q.project => r = q

\* a Save met a row of its key, beside rows of other keys
C8_Witness ==
  /\ last.op \in {"SavePR", "SaveIssue"} /\ last.ok /\ last.replaced
  /\ Cardinality(db.pull_requests) >= 2 /\ Cardinality(db.issues) >= 2
  /\ db.sync_runs # {}

\* C9: a successful Save of r leaves exactly one row of r's key, holding r's
\* values and nothing of the row it replaced, and changes no row of another
\* key.
C9_SaveReplacesRow ==
  [][ /\ (last'.n = last.n + 1 /\ last'.op = "SavePR" /\ last'.ok) =>
           LET pr == last'.arg
               key == << pr.GitHubPRID, pr.Repository >>
               mine == {r \in db'.pull_requests : PRKey(r) = key}
           IN /\ Cardinality(mine) = 1
              /\ \A r \in mine : r = PRRow(r.id, pr)
                                 /\ r.id \notin {q.id : q \in db.pull_requests}
              /\ db'.pull_requests \ mine
                   = {r \in db.pull_requests : PRKey(r) # key}
              /\ db'.issues = db.issues
              /\ db'.sync_runs = db.sync_runs
              /\ db'.jira_sync_runs = db.jira_sync_runs
      /\ (last'.n = last.n + 1 /\ last'.op = "SaveIssue" /\ last'.ok) =>
           LET issue == last'.arg
               key == << issue.JiraIssueID, issue.Project >>
               mine == {r \in db'.issues : IssueKey(r) = key}
           IN /\ Cardinality(mine) = 1
              /\ \A r \in mine : r = IssueRow(r.id, issue)
                                 /\ r.id \notin {q.id : q \in db.issues}
              /\ db'.issues \ mine = {r \in db.issues : IssueKey(r) # key}
              /\ db'.pull_requests = db.pull_requests
              /\ db'.sync_runs = db.sync_runs
              /\ db'.jira_sync_runs = db.jira_sync_runs
    ]_vars

\* a Save replaced a row that held other values, rows of other keys beside it
C9_Witness ==
  /\ last.op = "SavePR" /\ last.ok /\ last.changed
  /\ \E r \in db.pull_requests : PRKey(r) # << last.arg.GitHubPRID, last.arg.Repository >>

\* C10: no step of any run, and no change of the upstream, removes a key
\* from the pull requests or the issues of the store.
C10_KeysNeverShrink ==
  [][ PRKeys(db) \subseteq PRKeys(db') /\ IssueKeys(db) \subseteq IssueKeys(db') ]_vars

\* a second run has returned and the store still holds a record that is no
\* longer upstream
C10_Witness ==
  /\ g.runs = 2 /\ o.pc = "returned"
  /\ \/ \E r \in db.pull_requests :
          ~\E u \in ghPRs : u.Number = r.github_pr_id /\ u.Repo = r.repository
     \/ \E r \in db.issues :
          ~\E u \in jiraIssues : u.Key = r.jira_issue_id /\ u.Project = r.project

\* the requests of the call made for username u, in order
RECURSIVE RequestsOf(_, _, _)
RequestsOf(requests, u, i) ==
  IF i > Len(requests) THEN <<>>
  ELSE (IF requests[i].u = u THEN << requests[i] >> ELSE <<>>)
       \o RequestsOf(requests, u, i + 1)
\* the records the call has for username u, once its page loop has ended
PartOf(c, u) ==
  SubSeq(c.all, (IF u = 1 THEN 0 ELSE c.ends[u - 1]) + 1, c.ends[u])

\* C11: FetchIssues asks for a further page exactly when the page it received
\* held MaxResults (100) records; for a result of n records it makes
\* floor(n/100)+1 requests, at offsets 0, 100, 200, ..., and returns the n
\* records once each
C11_IssuePaging ==
  call.kind = "jira" =>
    /\ \A i \in 1..Len(call.requests) :
         LET r == call.requests[i]
             more == \/ (i < Len(call.requests) /\ call.requests[i + 1].u = r.u)
                     \/ (i = Len(call.requests) /\ call.pc = "page" /\ call.u = r.u)
         IN r.ok => /\ r.got = MaxResults => more
                    /\ r.got < MaxResults => ~more
                    /\ r.got <= MaxResults
    /\ \A u \in 1..Len(call.ends) :
         LET n == Len(call.served[u])
             rs == RequestsOf(call.requests, u, 1)
         IN /\ Len(rs) = (n \div MaxResults) + 1
            /\ \A k \in 1..Len(rs) : rs[k].at = (k - 1) * MaxResults
            /\ PartOf(call, u) = MapIssues(call.served[u], call.scope, 1)
            /\ Len(PartOf(call, u)) = n
            /\ \A a, b \in 1..n :
                 a # b => PartOf(call, u)[a].JiraIssueID # PartOf(call, u)[b].JiraIssueID

\* a result of exactly two full pages has been fetched with three requests
C11_Witness ==
  /\ call.kind = "jira" /\ call.pc = "done" /\ ~call.err
  /\ \E u \in 1..Len(call.ends) :
       /\ Len(call.served[u]) = 2 * MaxResults
       /\ Len(RequestsOf(call.requests, u, 1)) = 3
       /\ Len(PartOf(call, u)) = 2 * MaxResults


\* request i of the call was followed by a further request of the same page
\* loop, or the loop is about to make one
Further(c, i) ==
  \/ (i < Len(c.requests) /\ c.requests[i + 1].u = c.requests[i].u)
  \/ (i = Len(c.requests) /\ c.pc = "page" /\ c.u = c.requests[i].u)

C13_FailedCallReturnsNothing ==
  /\ (\E i \in 1..Len(call.requests) : ~call.requests[i].ok) =>
       /\ call.pc = "done" /\ call.err /\ call.result = <<>>
       /\ ~call.requests[Len(call.requests)].ok
       /\ \A i \in 1..(Len(call.requests) - 1) : call.requests[i].ok
  /\ call.err => \E i \in 1..Len(call.requests) : ~call.requests[i].ok
  /\ (call.pc = "done" /\ ~call.err) => call.result = call.all
  /\ db = EmptyDB

\* a call failed after a full page of records and a whole username's records
\* had been received
C13_Witness ==
  /\ call.pc = "done" /\ call.err /\ call.result = <<>>
  /\ Len(call.all) > 0
  /\ Len(call.acc) > 0
  /\ \E i \in 1..Len(call.requests) :
       call.requests[i].ok /\ call.requests[i].got = PerPage


\* C14 as claimed: a failed fetch for one username costs the call that
\* username's records only: every other username of the call is fetched and
\* its records are in what the call returns
C14_AsClaimed ==
  call.pc = "done" =>
    /\ call.result = call.all
    /\ \A u \in 1..Len(call.usernames) : RequestsOf(call.requests, u, 1) # <<>>


\* the pull requests the tasks of the run have saved
RECURSIVE SavedBy(_)
SavedBy(ids) ==
  IF ids = {} THEN 0
  ELSE LET id == CHOOSE x \in ids : TRUE
       IN tasks[id].saved + SavedBy(ids \ {id})

\* C15 as claimed: when runSync returns after a Save of a fetched batch has
\* failed, Save has been attempted for every record of that batch, and the
\* totals of the summary are the numbers of Saves that succeeded
C15_AsClaimed ==
  (/\ o.pc = "returned"
   /\ \E id \in DOMAIN tasks : tasks[id].saveErrs > 0) =>
    /\ \A id \in DOMAIN tasks :
         tasks[id].saveErrs > 0 =>
           /\ tasks[id].k > Len(tasks[id].prs)
           /\ tasks[id].saved + tasks[id].saveErrs = Len(tasks[id].prs)
    /\ totalPRs = SavedBy(DOMAIN tasks)


\* some configured team carries the name, letter case aside
Matches(filter) == \E i \in 1..Len(Teams) : EqualFold(Teams[i].Name, filter)

\* C17: a run whose team filter matches no configured team returns a non-zero
\* code at once: no task is started, no connector is called, and no record or
\* watermark of the store changes
C17_NoMatchingTeam ==
  [][(o' # o /\ o'.teamFilter # "" /\ ~Matches(o'.teamFilter)) =>
       /\ o.pc = "idle" /\ o'.pc = "idle"
       /\ o'.exitCode # 0
       /\ ~o'.dbOpen
       /\ db' = db
       /\ tasks' = <<>> /\ wp' = 0
       /\ g'.fetches = {}
       /\ \A s \in Scopes : g'.wmWrites[s] = 0]_vars

\* a run with a filter no team matches has ended with code 1 on a store that
\* holds an earlier run's rows, and these are all still there
C17_Witness ==
  /\ o.pc = "idle" /\ o.exitCode = 1
  /\ o.teamFilter = "Ops" /\ ~Matches("Ops")
  /\ db = PriorDB /\ db.pull_requests # {}
  /\ g.runs = 1 /\ tasks = <<>> /\ g.fetches = {}


\* the tasks Work has started that have not finished
Running == {id \in DOMAIN tasks : tasks[id].pc # "done"}

\* C20: the tasks started and not finished are never more than the pool's
\* capacity and always as many as the slots held, and a step that starts a
\* task begins with fewer tasks running than the pool has slots
C20_PoolBound ==
  [][/\ Cardinality(Running) <= cmd.env.NumCPU
     /\ Cardinality(Running) = wp
     /\ Cardinality(Running') <= cmd.env.NumCPU
     /\ Cardinality(Running') = wp'
     /\ DOMAIN tasks' \ DOMAIN tasks # {} =>
          /\ Cardinality(Running) < cmd.env.NumCPU
          /\ Cardinality(DOMAIN tasks' \ DOMAIN tasks) = 1]_vars

\* the pool is full while runSync has a further task to submit, an earlier
\* task having finished and given its slot to a later one
C20_Witness ==
  /\ o.pc = "dispatch"
  /\ wp = PoolSize /\ Cardinality(Running) = PoolSize
  /\ Cardinality(DOMAIN tasks) > PoolSize


\* the invocation fails one of the checks Run makes before runSync: no
\* readable configuration, no GITHUB_TOKEN, or a -since that is no date
Unfit(c) ==
  \/ ~c.env.configExists
  \/ c.env.loadErr
  \/ c.env.GITHUB_TOKEN = ""
  \/ c.args.since \notin {"", "2024-01-01", "2024-01-02"}

\* nothing of a run has happened: no task, no connector call, and the store
\* as it was before the invocation
Untouched ==
  /\ g.runs = 0 /\ o.pc = "idle" /\ ~o.dbOpen
  /\ tasks = <<>> /\ wp = 0
  /\ g.fetches = {} /\ \A s \in Scopes : g.wmWrites[s] = 0
  /\ call = NoConn
  /\ db = g.start /\ db \in {EmptyDB, PriorDB}

\* C16: an invocation without a readable configuration file, with an empty
\* GITHUB_TOKEN or with a -since that does not parse as YYYY-MM-DD returns a
\* non-zero code, and no connector call and no store write is ever made
C16_FatalBeforeAnyCall ==
  (cmd.pc # "none" /\ Unfit(cmd)) =>
    /\ cmd.pc = "exited"
    /\ cmd.code # 0 /\ o.exitCode = cmd.code
    /\ Untouched

\* Run has returned 1 for a -since that is no date, everything else in order,
\* on a store that holds an earlier run's rows
C16_Witness ==
  /\ cmd.pc = "exited" /\ cmd.code = 1
  /\ cmd.args.since = "2024-02-30" /\ ~cmd.args.dryRun
  /\ cmd.env.configExists /\ ~cmd.env.loadErr
  /\ cmd.env.GITHUB_TOKEN # "" /\ cmd.env.JIRA_API_TOKEN # "" /\ cmd.env.JIRA_USERNAME # ""
  /\ db = PriorDB /\ Untouched

\* C18 as claimed: with no issue-tracking project configured, an invocation
\* that is in order but for an empty JIRA_USERNAME or JIRA_API_TOKEN goes on
\* to runSync
C18_AsClaimed ==
  (/\ cmd.pc # "none"
   /\ Projects = <<>>
   /\ ~Unfit(cmd) /\ ~cmd.args.dryRun
   /\ cmd.env.JIRA_USERNAME = "" \/ cmd.env.JIRA_API_TOKEN = "") =>
    cmd.pc = "runSync"

\* C19 as claimed: an invocation with -dry-run prints the plan and does
\* nothing else
C19_AsClaimed ==
  (cmd.pc # "none" /\ cmd.args.dryRun) =>
    /\ cmd.out = "plan" /\ cmd.code = 0
    /\ Untouched


\* C23: filterTeams returns every team, in order, for the empty filter, and
\* otherwise the teams whose name is the filter but for letter case, in
\* order; a team whose name only contains the filter, or is contained in it,
\* is not among them
C23_FilterTeams ==
  fn.op = "filterTeams" =>
    LET teams == fn.arg[1]
        filter == fn.arg[2]
        keep == {i \in 1..Len(teams) : ToLower(teams[i].Name) = ToLower(filter)}
    IN /\ filter = "" => fn.res = teams
       /\ filter # "" =>
            /\ Len(fn.res) = Cardinality(keep)
            /\ \A k \in 1..Len(fn.res) :
                 /\ ToLower(fn.res[k].Name) = ToLower(filter)
                 /\ \E i \in keep :
                      /\ teams[i] = fn.res[k]
                      /\ Cardinality({j \in keep : j < i}) = k - 1
       /\ filter = "Cor" => fn.res = <<>>
       /\ filter \in {"CORE", "core", "Core"} =>
            \A k \in 1..Len(fn.res) : fn.res[k].Name \in {"Core", "core"}

\* filterTeams has picked the team named core for the filter CORE and left
\* the team CoreWeb, listed after it, out
C23_Witness ==
  /\ fn.op = "filterTeams"
  /\ fn.arg[2] = "CORE"
  /\ \E t \in TeamPool :
       /\ t.Name = "CoreWeb"
       /\ fn.arg[1] = << [Core EXCEPT !.Name = "core"], t >>
  /\ fn.res = << [Core EXCEPT !.Name = "core"] >>


\* the resolved-status vocabulary, in lower case
Vocabulary == {"done", "closed", "resolved", "complete", "completed"}

\* C24: MapIssueToDomain keeps the resolution date upstream supplied; without
\* one it resolves the item at its last-update time when the status is in
\* the vocabulary, letter case aside, and leaves it unresolved otherwise
C24_ResolvedAt ==
  fn.op = "MapIssueToDomain" =>
    LET i == fn.arg
        d == fn.res
    IN /\ i.Resolutiondate # NilTime => d.ResolvedAt = i.Resolutiondate
       /\ (i.Resolutiondate = NilTime /\ ToLower(i.Status) \in Vocabulary) =>
            d.ResolvedAt = SomeTime(i.Updated)
       /\ (i.Resolutiondate = NilTime /\ ToLower(i.Status) \notin Vocabulary) =>
            d.ResolvedAt = NilTime
       /\ d.Status = i.Status /\ d.UpdatedAt = i.Updated

\* an item with status Closed and no resolution date has been mapped: it is
\* resolved at its last-update time, which is not its creation time
C24_Witness ==
  /\ fn.op = "MapIssueToDomain"
  /\ fn.arg.Status = "Closed" /\ fn.arg.Resolutiondate = NilTime
  /\ fn.arg.Updated = 3 /\ fn.arg.Created = 1
  /\ fn.res.ResolvedAt = SomeTime(3)


\* C25 as claimed: IsResolved is true exactly for a status of the vocabulary,
\* letter case aside, as isResolvedStatus is
C25_AsClaimed ==
  fn.op = "IsResolved" =>
    /\ fn.res = (ToLower(fn.arg.Status) \in Vocabulary)
    /\ fn.res = isResolvedStatus(fn.arg.Status)

UpstreamOf(repository, number) ==
  {p \in ghPRs : p.Repo = repository /\ p.Number = number}

\* C27: a record MapPRToDomain produced for a task, and a row a run stored,
\* has a merge time when its state is merged, and is in state merged only
\* when the upstream pull request is closed and carries a merge time
C27_MergedHasMergeTime ==
  /\ \A id \in DOMAIN tasks : \A k \in 1..Len(tasks[id].prs) :
       LET pr == tasks[id].prs[k]
       IN /\ pr.State = "merged" => pr.MergedAt # NilTime
          /\ \A p \in UpstreamOf(pr.Repository, pr.GitHubPRID) :
               /\ pr.State = "merged" <=> (p.State = "closed" /\ p.MergedAt # NilTime)
               /\ pr.State # "merged" => pr.State = p.State
               /\ pr.MergedAt = p.MergedAt
  /\ \A r \in db.pull_requests :
       /\ r.state = "merged" => r.merged_at # NilTime
       /\ \A p \in UpstreamOf(r.repository, r.github_pr_id) :
            r.state = "merged" <=> (p.State = "closed" /\ p.MergedAt # NilTime)

\* a run has stored a merged pull request with its merge time next to a
\* closed one that was never merged
C27_Witness ==
  /\ g.runs = 1
  /\ \E r \in db.pull_requests \ g.start.pull_requests :
       r.state = "merged" /\ r.merged_at = SomeTime(2)
  /\ \E r \in db.pull_requests \ g.start.pull_requests :
       r.state = "closed" /\ r.merged_at = NilTime


\* C22 as claimed: the pull-request total of the summary is the number of
\* Saves of pull requests that succeeded, also when every task has finished
\* by the time runSync returns
C22_AsClaimed ==
  (/\ o.pc = "returned"
   /\ \A id \in DOMAIN tasks : tasks[id].pc = "done") =>
    totalPRs = SavedBy(DOMAIN tasks)

\* the tasks that are still in their function body: not finished, and not
\* just about to return with nothing left to send
Busy ==
  {id \in DOMAIN tasks :
     /\ tasks[id].pc # "done"
     /\ ~(tasks[id].pc = "return" /\ tasks[id].pending = "")}

\* C29 as claimed: at most one repository task is running at any time, and a
\* task starts only when those before it have finished
C29_AsClaimed ==
  /\ Cardinality(Busy) <= 1
  /\ \A id \in Busy : \A other \in DOMAIN tasks \ {id} :
       tasks[other].pc \notin {"save", "incr", "updateLastSync"}

\* C30 as claimed: without -since, a repository that had no watermark when
\* the run started is fetched with no lower bound for every team
C30_AsClaimed ==
  \A f \in g.fetches :
    (/\ f.scope[1] = "github"
     /\ f.given = NilTime
     /\ GetLastSyncPR(g.start, f.scope[2]) = NilTime) =>
      f.since = NilTime


\* C21 as claimed: a run that has entered its team loop gets to the summary
\* and returns 0
C21_AsClaimed ==
  (o.pc \notin {"idle", "returned"}) ~> (o.pc = "returned" /\ o.exitCode = 0)

\* C28 as claimed: every task handed to the pool finishes and gives its slot
\* back
C28_AsClaimed ==
  \A id \in LiveTaskIds :
    (id \in DOMAIN tasks) ~> (id \in DOMAIN tasks /\ tasks[id].pc = "done")

\* the usernames the configuration names for each platform
GitHubIdentities ==
  UNION {Range(extractGitHubUsernames(Teams[i].Members)) : i \in 1..Len(Teams)}
JiraIdentities ==
  UNION {Range(extractJiraUsernames(Teams[i].Members)) : i \in 1..Len(Teams)}
\* the upstream records of a scope, of a configured identity and created at
\* or before time t, that the store does not hold
Missing(s, t) ==
  IF s[1] = "github"
  THEN {p \in ghPRs : /\ p.Repo = s[2] /\ p.Login \in GitHubIdentities
                      /\ p.CreatedAt <= t
                      /\ << p.Number, s[2] >> \notin PRKeys(db)}
  ELSE {i \in jiraIssues : /\ i.Project = s[2] /\ i.Assignee \in JiraIdentities
                           /\ i.Created <= t
                           /\ << i.Key, s[2] >> \notin IssueKeys(db)}

\* C31 as claimed: when every run so far ran without -since and met no
\* failed call, and the last one has returned with all its tasks finished,
\* the store holds every upstream record of a configured scope and identity
\* that was created at or before the scope's stored watermark, records
\* created during a run included
C31_AsClaimed ==
  (/\ o.pc = "returned" /\ o.since = NilTime /\ g.faults = 0
   /\ \A id \in DOMAIN tasks : tasks[id].pc = "done"
   /\ (g.runs = 1 \/ (g.prev.clean /\ g.prev.since = NilTime))) =>
    \A s \in Scopes :
      Watermark(db, s) # NilTime => Missing(s, Watermark(db, s)[1]) = {}

\* the tasks whose next step is a call of the store: prRepo.GetLastSync,
\* prRepo.Save or prRepo.UpdateLastSync
AtStoreCall ==
  {id \in DOMAIN tasks : tasks[id].pc \in {"getLastSync", "save", "updateLastSync"}}

\* C32 as claimed: when runSync has returned and the deferred db.Close() has
\* closed the database, no repository task is about to call the store: the
\* tasks runSync dispatched are over
C32_AsClaimed ==
  (o.pc = "returned" /\ ~o.dbOpen) => AtStoreCall = {}

\* the tasks that stand at a `bus <- msg`: about to send, or blocked sending
Sending == {id \in DOMAIN tasks : Live(id) /\ tasks[id].pending # ""}

\* C33 as claimed: when runSync has returned and its deferred close(bus) has
\* closed every team's channel, no task stands at a send on one of them
C33_AsClaimed ==
  o.pc = "returned" => Sending = {}

\* task a was dispatched for an earlier team than b, or for the same team and
\* a repository listed earlier
Before(a, b) == a[1] < b[1] \/ (a[1] = b[1] /\ a[2] < b[2])

\* C34: every step that dispatches a repository task dispatches one that was
\* not dispatched before in the run, for the repository at the loop's index,
\* after the tasks of all teams before it and of all repositories listed
\* before it for its team; tasks appear in no other way; the project loop
\* moves from a project to the next one listed and a step touches only the
\* project the loop stands at. A failure changes none of this: no scope is
\* dispatched again.
C34_ConfigurationOrder ==
  [][/\ (o.pc = "dispatch" /\ o'.pc = "recv") =>
          LET id == << o.teamIdx, o.repoIdx >>
          IN /\ id \notin DOMAIN tasks
             /\ DOMAIN tasks' = DOMAIN tasks \cup {id}
             /\ tasks'[id].repo = Repositories[id[2]]
             /\ \A old \in DOMAIN tasks : Before(old, id)
             /\ \A j \in 1..(id[2] - 1) : << id[1], j >> \in DOMAIN tasks
     /\ (o.pc # "idle" /\ o'.pc # "idle") =>
          /\ DOMAIN tasks' # DOMAIN tasks => (o.pc = "dispatch" /\ o'.pc = "recv")
          /\ o'.projIdx \in {o.projIdx, o.projIdx + 1}
          /\ \A i \in 1..Len(Projects) :
               g'.proj[Projects[i]] # g.proj[Projects[i]] => i = o.projIdx
    ]_vars

\* the access check of the first repository listed failed for the first
\* team, the tasks of both repositories were dispatched for both teams, and
\* the project loop fetches for the second project listed
C34_Witness ==
  /\ DOMAIN tasks = TaskIds /\ Cardinality(TaskIds) = 4
  /\ tasks[<< 1, 1 >>].access = "fail"
  /\ tasks[<< 1, 1 >>].repo = "B" /\ tasks[<< 2, 2 >>].repo = "A"
  /\ o.pc = "projFetch" /\ o.projIdx = 2 /\ CurProject = "P"
  /\ g.proj["Q"].access = "ok"

\* the non-empty names of a list, in the order of the list
NonEmpty(names) == SelectSeq(names, LAMBDA x : x # "")
\* the usernames the members of a team have on each platform, member by member
GitHubNames(team) ==
  NonEmpty([i \in 1..Len(team.Members) |-> team.Members[i].GitHubUsername])
JiraNames(team) ==
  NonEmpty([i \in 1..Len(team.Members) |-> team.Members[i].JiraUsername])
\* the selected teams that have a username on a platform
GitHubTeams == {i \in 1..Len(o.teamsToSync) : GitHubNames(o.teamsToSync[i]) # <<>>}
JiraTeams == {i \in 1..Len(o.teamsToSync) : JiraNames(o.teamsToSync[i]) # <<>>}

\* C35: the usernames a repository task hands to FetchPRsForTeamMembers are
\* the non-empty code-hosting usernames of its team's members, in member
\* order, and there is at least one; a project fetch is made only for a team
\* with an issue-tracker username, and what it returns is assigned to those
\* usernames, in member order; a team without a username for a platform does
\* not stop the run: once the team loop is over every team with a
\* code-hosting username has its tasks, and once a reachable project is over
\* the fetch was called for every team with an issue-tracker username.
C35_IdentitiesPassed ==
  o.pc # "idle" =>
    /\ \A id \in DOMAIN tasks :
         /\ tasks[id].usernames = GitHubNames(o.teamsToSync[id[1]])
         /\ tasks[id].usernames # <<>>
    /\ o.projIdx >= 1 => DOMAIN tasks = GitHubTeams \X (1..Len(Repositories))
    /\ \A p \in Range(Projects) :
         /\ g.proj[p].fetched \subseteq JiraTeams
         /\ (g.proj[p].access = "ok" /\ o.projIdx > IndexOf(Projects, p))
              => g.proj[p].fetched = JiraTeams
    /\ o.pc \in {"projFetch", "projSave"} => o.pTeamIdx \in JiraTeams
    /\ o.pc = "projSave" =>
         LET names == JiraNames(o.teamsToSync[o.pTeamIdx])
         IN /\ \A k \in 1..Len(o.issues) : o.issues[k].Assignee \in Range(names)
            /\ \A k \in 1..(Len(o.issues) - 1) :
                 IndexOf(names, o.issues[k].Assignee)
                   <= IndexOf(names, o.issues[k + 1].Assignee)

\* the run has returned: the team without a code-hosting username has no
\* task, the two others have theirs, the one of the mixed team with both of
\* its usernames; the project was fetched for the two teams with an
\* issue-tracker username, issues of both assignees of the mixed team stored
C35_Witness ==
  /\ o.pc = "returned" /\ cfg = IdentConfig
  /\ DOMAIN tasks = {<< 2, 1 >>, << 3, 1 >>}
  /\ tasks[<< 2, 1 >>].usernames = << "bob" >>
  /\ tasks[<< 3, 1 >>].usernames = << "alice", "bob" >>
  /\ g.proj["P"].fetched = {1, 3}
  /\ {r.assignee : r \in db.issues} = {"alice", "carol"}

\* C36: the result of a FetchPRsForTeamMembers call whose requests all
\* succeeded holds only mapped pull requests of the repository, and holds a
\* pull request of the repository as many times as its author stands in the
\* identity list when `since` is unset or not after its creation time, and
\* not at all otherwise.
C36_ExactlyTheMatching ==
  fn.op = "FetchPRsForTeamMembers" =>
    LET repository == fn.arg[1]
        usernames == fn.arg[2]
        since == fn.arg[3]
        mine == {p \in ghPRs : p.Repo = repository}
    IN /\ \A k \in 1..Len(fn.res) :
            \E p \in mine : fn.res[k] = MapPRToDomain(p, repository)
       /\ \A p \in mine :
            Cardinality({k \in 1..Len(fn.res) : fn.res[k].GitHubPRID = p.Number})
              = IF since = NilTime \/ p.CreatedAt >= since[1]
                THEN Cardinality({u \in 1..Len(usernames) : usernames[u] = p.Login})
                ELSE 0

\* alice listed twice and `since` at the creation time of her pull request of
\* repository A: it is returned twice, bob's pull request not at all
C36_Witness ==
  /\ fn.op = "FetchPRsForTeamMembers"
  /\ fn.arg = << "A", << "alice", "alice" >>, SomeTime(1) >>
  /\ Len(fn.res) = 2
  /\ \A k \in 1..2 : fn.res[k].GitHubPRID = 1 /\ fn.res[k].Author = "alice"

\* a watermark as a number: none at all counts as the lowest
AsNumber(t) == IF t = NilTime THEN 0 - 1 ELSE t[1]

\* C37 as claimed: no step lowers the stored watermark of a scope, whether
\* the run was started with -since or without
C37_AsClaimed ==
  [][\A s \in Scopes :
       AsNumber(Watermark(db', s)) >= AsNumber(Watermark(db, s))]_vars

\* C38 as claimed: when a run has returned, every repository task whose
\* GetLastSync failed has fetched with the explicit -since, or with no lower
\* bound when none was given, has upserted what it fetched and has written
\* the watermark, unless a later call of it failed as well; and so has
\* runSync itself for the last project when the read of its watermark failed
C38_AsClaimed ==
  o.pc = "returned" =>
    /\ \A id \in DOMAIN tasks :
         (tasks[id].readErr /\ ~tasks[id].fetchErr /\ tasks[id].saveErrs = 0
            /\ tasks[id].wm # "fail") =>
           /\ tasks[id].fetched /\ tasks[id].syncSince = o.since
           /\ Upserted(tasks[id].prs) /\ tasks[id].wm = "ok"
    /\ \A e \in g.fetches : e.readErr => e.since = e.given
    /\ (o.readErr /\ Len(Projects) > 0) =>
         LET p == Projects[Len(Projects)]
         IN (~g.proj[p].failed /\ g.proj[p].wm # "fail") =>
              /\ g.proj[p].fetched # {}
              /\ \E e \in g.fetches : e.scope = ProjScope(p) /\ e.readErr
              /\ g.proj[p].wm = "ok"

====
